---- MODULE Spec2Model ----
(***************************************************************************)
(* Model of the restaurant ranking engine of llm_restaurant_recommender    *)
(* (utils/ranking.py): haversine_meters, _safe_parse_tags,                 *)
(* _infer_price_bucket and rank_restaurants.                               *)
(*                                                                         *)
(* Representation of the Python / pandas values:                           *)
(*   None            [t |-> "none"]                                        *)
(*   float NaN       [t |-> "nan"]                                         *)
(*   str             [t |-> "str", s |-> <<"l","o","w">>]  (characters)    *)
(*   int / float     [t |-> "num", n |-> k]  k an integer in the unit of   *)
(*                   its column: lat, lon in millidegrees, distance_m in   *)
(*                   metres, rating in tenths of a point, average_price    *)
(*                   in currency units                                     *)
(*   dict            [t |-> "dict", d |-> function]                        *)
(*   list            [t |-> "list"]                                        *)
(* Derived real numbers (sub-scores, score) are exact reduced fractions    *)
(* [n |-> numerator, d |-> denominator], d > 0.                            *)
(* A DataFrame is [cols |-> set of column names, rows |-> sequence of      *)
(* functions from cols to values].                                         *)
(***************************************************************************)
EXTENDS Integers, Sequences, FiniteSets, TLC

VARIABLES
    df,           \* the caller's candidate DataFrame (the object passed in)
    prefs,        \* the caller's preference dict (or None)
    user_coords,  \* the caller's seeker coordinates: None or <<lat, lon>>
    weights,      \* the caller's weight dict (or None)
    result,       \* what the last call of rank_restaurants produced
    pc,           \* "ready" before the call, "done" after it; "threads" when
                  \* the calls are made by concurrent threads
    work,         \* per thread: where its call of rank_restaurants stands, the
                  \* call's arguments and local variables
    log,          \* the calls that returned: arguments and what was returned
    made,         \* how many calls were begun
    geo,          \* haversine_meters: the two points and the distances computed
    expl,         \* generate_explanations: the restaurants and the explanations
    limiter,      \* RateLimiter: the clock, _last_call, the lock and the callers
    search,       \* search_restaurants: the retry loop of one call
    app,          \* the application flow of one query
    metro         \* metro_search: the search being run

vars == <<df, prefs, user_coords, weights, result, pc, work, log, made,
          geo, expl, limiter, search, app, metro>>

\* The variables of rank_restaurants and those of the other components
rankVars == <<df, prefs, user_coords, weights, result, pc, work, log, made>>
besideRanking == <<geo, expl, limiter, search, app, metro>>

\* The value of a variable whose component takes no part in a specification
Unused == [at |-> "unused"]

----------------------------------------------------------------------------
(* Python values *)

None == [t |-> "none"]
NaN == [t |-> "nan"]
Str(s) == [t |-> "str", s |-> s]
Num(n) == [t |-> "num", n |-> n]
Dict(d) == [t |-> "dict", d |-> d]
List == [t |-> "list"]

IsStr(v) == v.t = "str"
IsNum(v) == v.t = "num"

\* The empty Python dict: a function with the empty domain.
EmptyMap == [k \in {} |-> None]

\* dict.get(key, default) / Series.get(key, default)
Get(m, key, default) == IF key \in DOMAIN m THEN m[key] ELSE default

----------------------------------------------------------------------------
(* Text: str.lower, str.strip, on sequences of characters *)

UpperAlphabet ==
    <<"A","B","C","D","E","F","G","H","I","J","K","L","M",
      "N","O","P","Q","R","S","T","U","V","W","X","Y","Z">>
LowerAlphabet ==
    <<"a","b","c","d","e","f","g","h","i","j","k","l","m",
      "n","o","p","q","r","s","t","u","v","w","x","y","z">>

LowerChar(c) ==
    IF \E i \in 1..Len(UpperAlphabet) : UpperAlphabet[i] = c
    THEN LowerAlphabet[CHOOSE i \in 1..Len(UpperAlphabet) : UpperAlphabet[i] = c]
    ELSE c

\* str.lower()
Lower(s) == [i \in 1..Len(s) |-> LowerChar(s[i])]

\* str.strip(): leading and trailing blanks removed
Strip(s) ==
    LET nonblank == {i \in 1..Len(s) : s[i] # " "}
    IN  IF nonblank = {} THEN <<>>
        ELSE LET first == CHOOSE i \in nonblank : \A j \in nonblank : i <= j
                 last == CHOOSE i \in nonblank : \A j \in nonblank : j <= i
             IN  SubSeq(s, first, last)

----------------------------------------------------------------------------
(* Exact arithmetic for the float sub-scores *)

Abs(x) == IF x < 0 THEN -x ELSE x

RECURSIVE Gcd(_, _)
Gcd(a, b) == IF b = 0 THEN a ELSE Gcd(b, a % b)

\* The fraction n/d (d # 0) in lowest terms with a positive denominator.
Frac(n, d) ==
    LET g == Gcd(Abs(n), Abs(d))
        s == IF d < 0 THEN -1 ELSE 1
    IN  [n |-> (s * n) \div g, d |-> (s * d) \div g]

Zero == [n |-> 0, d |-> 1]
One == [n |-> 1, d |-> 1]

FracAdd(a, b) ==
    LET l == (a.d \div Gcd(a.d, b.d)) * b.d
    IN  Frac(a.n * (l \div a.d) + b.n * (l \div b.d), l)

FracMul(a, b) ==
    LET x == Frac(a.n, b.d)
        y == Frac(b.n, a.d)
    IN  Frac(x.n * y.n, x.d * y.d)

FracLt(a, b) ==
    LET l == (a.d \div Gcd(a.d, b.d)) * b.d
    IN  a.n * (l \div a.d) < b.n * (l \div b.d)

FracMax(a, b) == IF FracLt(a, b) THEN b ELSE a

----------------------------------------------------------------------------
(* haversine_meters, in fixed point.                                       *)
(* Angles are radians scaled by 10^8, cosines are scaled by 10^4, the      *)
(* haversine a is scaled by 10^16.  Divisions round to nearest with ties   *)
(* away from zero, which is sign-symmetric like IEEE arithmetic:           *)
(* RDiv(-x, y) = -RDiv(x, y).  Coordinates are millidegrees; the fixed     *)
(* point is exact enough for points a few kilometres apart.                *)

RDivNat(x, y) == (x \div y) + (IF 2 * (x % y) >= y THEN 1 ELSE 0)

RDiv(x, y) == IF x >= 0 THEN RDivNat(x, y) ELSE -RDivNat(-x, y)

\* Radius of earth in meters
R == 6371000

E4 == 100 * 100
E8 == E4 * E4

\* math.radians of a millidegree value, times 10^8 (pi/180000 = 1745.33e-8)
Radians(mdeg) == mdeg * 1745 + RDiv(mdeg * 3, 10)

\* math.sin(x), x scaled by 10^8: x - x^3/6 (the series, for small angles)
Sin(x) == x - RDiv(RDiv(x * x, E8) * x, 6 * E8)

\* math.cos(x), x scaled by 10^8, result scaled by 10^4:
\* 1 - x^2/2 + x^4/24 - x^6/720
Cos(x) ==
    LET x4 == RDiv(x, E4)
        sq == RDiv(x4 * x4, E4)
        qu == RDiv(sq * sq, E4)
    IN  E4 - RDiv(sq, 2) + RDiv(qu, 24) - RDiv(RDiv(qu * sq, E4), 720)

\* math.sqrt on a non-negative integer: the integer square root, by bisection
RECURSIVE SqrtBetween(_, _, _)
SqrtBetween(a, lo, hi) ==
    IF hi - lo <= 1 THEN lo
    ELSE LET mid == (lo + hi) \div 2
         IN  IF mid * mid <= a THEN SqrtBetween(a, mid, hi)
             ELSE SqrtBetween(a, lo, mid)

Sqrt(a) == SqrtBetween(a, 0, 46341)

\* math.asin(y), y scaled by 10^8: y + y^3/6
Asin(y) == y + RDiv(RDiv(y * y, E8) * y, 6 * E8)

\* The latitudes added where they are to be subtracted.
HaversineA_SumOfLatitudes(lat1, lon1, lat2, lon2) ==
    LET sdlat == Sin(RDiv(Radians(lat2) + Radians(lat1), 2 * E4))
        sdlon == Sin(RDiv(Radians(lon2) - Radians(lon1), 2))
    IN  sdlat * sdlat
        + RDiv(sdlon * sdlon, E4) * RDiv(Cos(Radians(lat1)) * Cos(Radians(lat2)), E4)

\* The cosine of the first latitude taken for both points.
HaversineA_FirstLatitudeTwice(lat1, lon1, lat2, lon2) ==
    LET sdlat == Sin(RDiv(Radians(lat2) - Radians(lat1), 2))
        sdlon == Sin(RDiv(Radians(lon2) - Radians(lon1), 2))
    IN  sdlat * sdlat
        + RDiv(sdlon * sdlon, E4) * RDiv(Cos(Radians(lat1)) * Cos(Radians(lat1)), E4)

\* Line 14: the haversine a of the two points, scaled by 10^16
HaversineA(lat1, lon1, lat2, lon2) ==
    LET rlon1 == Radians(lon1)
        rlat1 == Radians(lat1)
        rlon2 == Radians(lon2)
        rlat2 == Radians(lat2)
        dlon == rlon2 - rlon1
        dlat == rlat2 - rlat1
        sdlat == Sin(RDiv(dlat, 2))
        sdlon == Sin(RDiv(dlon, 2))
    IN  sdlat * sdlat + RDiv(sdlon * sdlon, E4) * RDiv(Cos(rlat1) * Cos(rlat2), E4)

\* Line 15 raises ValueError (math domain error) when a is outside [0, 1]:
\* math.sqrt of a negative number, math.asin of a number above 1.
HaversineRaises(lat1, lon1, lat2, lon2) ==
    \/ HaversineA(lat1, lon1, lat2, lon2) < 0
    \/ Sqrt(HaversineA(lat1, lon1, lat2, lon2)) > E8

\* Great-circle distance in metres between (lat1, lon1) and (lat2, lon2).
haversine_meters(lat1, lon1, lat2, lon2) ==
    LET a == HaversineA(lat1, lon1, lat2, lon2)
        c == 2 * Asin(Sqrt(a))
    IN  RDiv((R \div 1000) * c, E8 \div 1000)

----------------------------------------------------------------------------
(* Python helpers: truthiness, float(), ast.literal_eval *)

\* bool(v), as used by "if v", "a or b", "a and b"
Truthy(v) ==
    CASE v.t = "none" -> FALSE
      [] v.t = "nan" -> TRUE
      [] v.t = "str" -> Len(v.s) > 0
      [] v.t = "num" -> v.n # 0
      [] v.t = "dict" -> DOMAIN v.d # {}
      [] v.t = "list" -> TRUE

\* a or b
Or(a, b) == IF Truthy(a) THEN a ELSE b

Digits == <<"0","1","2","3","4","5","6","7","8","9">>
IsDigit(c) == \E i \in 1..10 : Digits[i] = c
DigitValue(c) == (CHOOSE i \in 1..10 : Digits[i] = c) - 1

RECURSIVE DecimalValue(_)
DecimalValue(s) ==
    IF s = <<>> THEN 0
    ELSE 10 * DecimalValue(SubSeq(s, 1, Len(s) - 1)) + DigitValue(s[Len(s)])

IsDecimalText(s) == Strip(s) # <<>> /\ \A i \in 1..Len(Strip(s)) : IsDigit(Strip(s)[i])

\* float(v): a number, nan, or an exception (ValueError / TypeError).
Float(v) ==
    CASE v.t = "num" -> [ok |-> TRUE, v |-> v]
      [] v.t = "nan" -> [ok |-> TRUE, v |-> NaN]
      [] v.t = "str" ->
            IF IsDecimalText(v.s)
            THEN [ok |-> TRUE, v |-> Num(DecimalValue(Strip(v.s)))]
            ELSE [ok |-> FALSE, exc |-> "ValueError"]
      [] OTHER -> [ok |-> FALSE, exc |-> "TypeError"]

\* pd.to_numeric(v, errors="coerce") on one value
ToNumeric(v) ==
    CASE v.t = "num" -> v
      [] v.t = "str" -> IF IsDecimalText(v.s) THEN Num(DecimalValue(Strip(v.s))) ELSE NaN
      [] OTHER -> NaN

\* Texts that serialise Python literals, and what ast.literal_eval makes of them.
TagsCostText == <<"{","'","c","o","s","t","'",":","'","$","'","}">>
TagsPriceText == <<"{","'","p","r","i","c","e","'",":","'","$","$","$","'","}">>
TagsListText == <<"[","1","]">>
TagsQuotedText == <<"'","x","'">>
TagsBrokenText == <<"{","'">>

\* ast.literal_eval(text): the value, or an exception for malformed text.
literal_eval(text) ==
    CASE text = TagsCostText -> [ok |-> TRUE, v |-> Dict([k \in {"cost"} |-> Str(<<"$">>)])]
      [] text = TagsPriceText -> [ok |-> TRUE, v |-> Dict([k \in {"price"} |-> Str(<<"$","$","$">>)])]
      [] text = TagsListText -> [ok |-> TRUE, v |-> List]
      [] text = TagsQuotedText -> [ok |-> TRUE, v |-> Str(<<"x">>)]
      [] IsDecimalText(text) -> [ok |-> TRUE, v |-> Num(DecimalValue(Strip(text)))]
      [] OTHER -> [ok |-> FALSE, exc |-> "SyntaxError"]

----------------------------------------------------------------------------
(* ranking.py: PRICE_SYMBOLS, _safe_parse_tags, _infer_price_bucket *)

low == <<"l","o","w">>
medium == <<"m","e","d","i","u","m">>
high == <<"h","i","g","h">>
unknown == <<"u","n","k","n","o","w","n">>
any == <<"a","n","y">>
medio == <<"m","e","d","i","o">>
media == <<"m","e","d","i","a">>
moderado == <<"m","o","d","e","r","a","d","o">>
moderada == <<"m","o","d","e","r","a","d","a">>
alto == <<"a","l","t","o">>
alta == <<"a","l","t","a">>
bajo == <<"b","a","j","o">>
baja == <<"b","a","j","a">>

PRICE_SYMBOLS ==
    (<<"$">> :> low) @@ (<<"$","$">> :> medium) @@ (<<"$","$","$">> :> high)
    @@ (<<"$","$","$","$">> :> high)

\* The value returned for raw; a str that is not a literal gives {}.
_safe_parse_tags(raw) ==
    IF raw.t = "dict" THEN raw
    ELSE IF raw.t # "str" THEN Dict(EmptyMap)
    ELSE IF literal_eval(raw.s).ok THEN literal_eval(raw.s).v
    ELSE Dict(EmptyMap)

\* common.py, safe_parse_tags(raw): the same steps as _safe_parse_tags
safe_parse_tags(raw) ==
    IF raw.t = "dict" THEN raw
    ELSE IF raw.t # "str" THEN Dict(EmptyMap)
    ELSE IF literal_eval(raw.s).ok THEN literal_eval(raw.s).v
    ELSE Dict(EmptyMap)

\* Lines 35-39: the price_range rule; <<>> when it gives no answer.
BucketFromPriceRange(price) ==
    IF IsStr(price) /\ Strip(price.s) # <<>>
    THEN LET normalized == Lower(Strip(price.s))
         IN  IF normalized \in {low, medio, medium, high, alto, bajo}
             THEN CASE normalized = medio -> medium
                    [] normalized = alto -> high
                    [] normalized = bajo -> low
                    [] OTHER -> normalized
             ELSE <<>>
    ELSE <<>>

\* Lines 41-48 and 66-72: a symbol or a bucket word; <<>> when neither.
BucketFromSymbol(symbolic_price) ==
    IF IsStr(symbolic_price) /\ Strip(symbolic_price.s) # <<>>
    THEN LET cleaned == Strip(symbolic_price.s)
             lowered == Lower(cleaned)
         IN  IF cleaned \in DOMAIN PRICE_SYMBOLS THEN PRICE_SYMBOLS[cleaned]
             ELSE IF lowered \in {low, medium, high} THEN lowered
             ELSE <<>>
    ELSE <<>>

\* Lines 50-60: the numeric average price; <<>> when it gives no answer.
BucketFromAverage(row) ==
    LET numeric_price == Or(Get(row, "average_price", None), Get(row, "avg_price", None))
    IN  IF numeric_price # None /\ Float(numeric_price).ok
        THEN LET value == Float(numeric_price).v
             IN  IF IsNum(value) /\ value.n < 30000 THEN low
                 ELSE IF IsNum(value) /\ value.n < 60000 THEN medium
                 ELSE high
        ELSE <<>>

\* Lines 62-72: the tags rule.  tags.get on a value that is not a dict raises.
BucketFromTags(row) ==
    LET tags == _safe_parse_tags(Get(row, "tags", None))
    IN  IF ~Truthy(tags) THEN [ok |-> TRUE, v |-> <<>>]
        ELSE IF tags.t # "dict" THEN [ok |-> FALSE, exc |-> "AttributeError"]
        ELSE LET tag_price == Or(Or(Get(tags.d, "price", None),
                                     Get(tags.d, "price:class", None)),
                                  Get(tags.d, "cost", None))
             IN  IF Truthy(tag_price) /\ IsStr(tag_price)
                 THEN [ok |-> TRUE, v |-> BucketFromSymbol(tag_price)]
                 ELSE [ok |-> TRUE, v |-> <<>>]

\* _infer_price_bucket(row): [ok |-> TRUE, v |-> bucket] or an exception.
_infer_price_bucket(row) ==
    IF BucketFromPriceRange(Get(row, "price_range", None)) # <<>>
    THEN [ok |-> TRUE, v |-> BucketFromPriceRange(Get(row, "price_range", None))]
    ELSE IF BucketFromSymbol(Get(row, "price", None)) # <<>>
    THEN [ok |-> TRUE, v |-> BucketFromSymbol(Get(row, "price", None))]
    ELSE IF BucketFromAverage(row) # <<>>
    THEN [ok |-> TRUE, v |-> BucketFromAverage(row)]
    ELSE IF ~BucketFromTags(row).ok THEN BucketFromTags(row)
    ELSE IF BucketFromTags(row).v # <<>> THEN BucketFromTags(row)
    ELSE [ok |-> TRUE, v |-> unknown]

----------------------------------------------------------------------------
(* pandas pieces used by rank_restaurants *)

Error(exc) == [status |-> "error", exc |-> exc]

IsNull(v) == v.t \in {"none", "nan"}

\* df.copy() left out: the function works on the caller's own frame.
DfCopy_Shared(frame) == [frame |-> frame, shared |-> TRUE]

\* df.copy(): a new frame object; writes to it do not reach the caller's frame.
DfCopy(frame) == [frame |-> frame, shared |-> FALSE]

\* re.compile(pat): the pattern language here is literals, "." (any character)
\* and "(" (opens a group, which nothing closes).
RegexCompiles(pat) == \A i \in 1..Len(pat) : pat[i] # "("

\* regex.search(text) with re.IGNORECASE
RegexSearch(pat, text) ==
    \E k \in 0..(Len(text) - Len(pat)) :
        \A i \in 1..Len(pat) :
            pat[i] = "." \/ LowerChar(pat[i]) = LowerChar(text[k + i])

\* Series.str.contains(pat, case=False) on one element, after fillna("")
StrContains(cell, pat) ==
    LET text == IF IsNull(cell) THEN <<>> ELSE cell.s
    IN  IF RegexSearch(pat, text) THEN One ELSE Zero

\* The sort without its second key: by score only.
SortsBefore_ScoreOnly(a, b) == FracLt(b["score"], a["score"])

\* The order of sort_values(by=["score", "distance_m"], ascending=[False, True]):
\* a sorts strictly before b.  NaN distances are placed last.
SortsBefore(a, b) ==
    \/ FracLt(b["score"], a["score"])
    \/ /\ a["score"] = b["score"]
       /\ \/ IsNum(a["distance_m"]) /\ ~IsNum(b["distance_m"])
          \/ /\ IsNum(a["distance_m"]) /\ IsNum(b["distance_m"])
             /\ a["distance_m"].n < b["distance_m"].n

\* The place of row i in the stable (lexsort) sort of the rows: after every row
\* that sorts strictly before it and after every earlier row that ties with it.
SortedPosition(rows, i) ==
    1 + Cardinality({j \in 1..Len(rows) :
                        \/ SortsBefore(rows[j], rows[i])
                        \/ j < i /\ ~SortsBefore(rows[i], rows[j])})

\* The sort with the rows of missing distance dropped (as dropna would).
SortValues_DropsMissing(rows) ==
    LET Known(r) == IsNum(r["distance_m"])
        kept == SelectSeq(rows, Known)
    IN  [k \in 1..Len(kept) |-> kept[CHOOSE i \in 1..Len(kept) : SortedPosition(kept, i) = k]]

\* sort_values(...).reset_index(drop=True)
SortValues(rows) ==
    [k \in 1..Len(rows) |-> rows[CHOOSE i \in 1..Len(rows) : SortedPosition(rows, i) = k]]

----------------------------------------------------------------------------
(* rank_restaurants, step by step *)

DefaultMaxDist == 5000

\* The caller's weights ignored.
EffectiveWeights_AlwaysDefault(w) ==
    [distance |-> 50, cuisine |-> 25, price |-> 15, rating |-> 10]

\* Lines 95-96
EffectiveWeights(w) ==
    IF w = None
    THEN [distance |-> 50, cuisine |-> 25, price |-> 15, rating |-> 10]
    ELSE w.d

\* A weight of 0 replaced by the default weight of its factor.
Weight_ZeroIsDefault(w, key) ==
    IF Get(EffectiveWeights(w), key, 0) = 0
    THEN Frac(EffectiveWeights(None)[key], 100)
    ELSE Frac(Get(EffectiveWeights(w), key, 0), 100)

\* weights.get(key, 0.0); weights are hundredths
Weight(w, key) == Frac(Get(EffectiveWeights(w), key, 0), 100)

\* Line 105, one row: haversine_meters(ulat, ulon, float(row["lat"]), float(row["lon"]))
RowDistance(coords, row) ==
    LET flat == Float(row["lat"])
        flon == Float(row["lon"])
    IN  IF "lat" \notin DOMAIN row \/ "lon" \notin DOMAIN row
        THEN [ok |-> FALSE, exc |-> "KeyError"]
        ELSE IF ~flat.ok THEN flat
        ELSE IF ~flon.ok THEN flon
        ELSE IF IsNum(flat.v) /\ IsNum(flon.v)
        THEN [ok |-> TRUE, v |-> Num(haversine_meters(coords.lat, coords.lon, flat.v.n, flon.v.n))]
        ELSE [ok |-> TRUE, v |-> NaN]

\* A distance_m column that is already there kept, also with seeker coordinates.
DistanceColumn_KeepsExisting(rows, cols, coords) ==
    IF "distance_m" \in cols
    THEN [i \in 1..Len(rows) |-> ToNumeric(rows[i]["distance_m"])]
    ELSE IF coords # None
    THEN [i \in 1..Len(rows) |-> ToNumeric(RowDistance(coords, rows[i]).v)]
    ELSE [i \in 1..Len(rows) |-> NaN]

\* Lines 103-109: the distance_m column.
DistanceColumn(rows, cols, coords) ==
    IF coords # None
    THEN [i \in 1..Len(rows) |-> ToNumeric(RowDistance(coords, rows[i]).v)]
    ELSE IF "distance_m" \in cols
    THEN [i \in 1..Len(rows) |-> ToNumeric(rows[i]["distance_m"])]
    ELSE [i \in 1..Len(rows) |-> NaN]

\* The reference distance fixed at the default, whatever the batch holds.
MaxDist_AlwaysDefault(dist) == DefaultMaxDist

\* Lines 110-112
MaxDist(dist) ==
    LET known == {dist[i].n : i \in {j \in 1..Len(dist) : IsNum(dist[j])}}
    IN  IF known = {} THEN DefaultMaxDist
        ELSE LET m == CHOOSE x \in known : \A y \in known : y <= x
             IN  IF m <= 0 THEN DefaultMaxDist ELSE m

\* Line 115
ScoreDistance(d, max_dist) ==
    IF IsNum(d) THEN FracMax(Zero, FracAdd(One, Frac(-d.n, max_dist))) ELSE Zero

\* Line 118
PrefCuisine(p) ==
    Or(Get(IF Truthy(p) THEN p.d ELSE EmptyMap, "cuisine", None), Str(<<>>))

\* Line 125
PrefPrice(p) ==
    Get(IF Truthy(p) THEN p.d ELSE EmptyMap, "price_range", Str(any))

\* 'any' taken for the name of a price
HasPricePreference_AnyIsAPrice(pref_price) ==
    Truthy(pref_price) /\ Lower(pref_price.s) # <<>>

\* Line 127: the preference names a price
HasPricePreference(pref_price) ==
    Truthy(pref_price) /\ Lower(pref_price.s) \notin {any, <<>>}

\* Lines 128-129
NormalizedPrefPrice(pref_price) ==
    LET p == Strip(Lower(pref_price.s))
    IN  CASE p \in {medio, media, moderado, moderada} -> medium
          [] p \in {alto, alta} -> high
          [] p \in {bajo, baja} -> low
          [] OTHER -> p

\* No partial credit: a bucket either matches the preference or scores 0.
_score_price_NoPartialCredit(bucket, pref_price) ==
    IF bucket = pref_price THEN One ELSE Zero

\* Lines 131-138
_score_price(bucket, pref_price) ==
    IF bucket = pref_price THEN One
    ELSE IF bucket \in {unknown, <<>>} THEN Frac(2, 10)
    ELSE IF {bucket, pref_price} = {low, medium} \/ {bucket, pref_price} = {medium, high}
    THEN Frac(5, 10)
    ELSE Zero

\* Lines 145-148; ratings are tenths of a point
RatingNorm(row, cols) ==
    IF "rating" \in cols
    THEN LET r == ToNumeric(row["rating"])
         IN  IF IsNum(r) THEN Frac(r.n, 50) ELSE Zero
    ELSE Zero

DerivedColumns ==
    {"distance_m", "score_distance", "score_cuisine", "price_bucket", "score_price",
     "rating_norm", "score"}

\* Lines 151-156
CombinedScore(w, score_distance, score_cuisine, score_price, rating_norm) ==
    FracAdd(FracAdd(FracMul(Weight(w, "distance"), score_distance),
                    FracMul(Weight(w, "cuisine"), score_cuisine)),
            FracAdd(FracMul(Weight(w, "price"), score_price),
                    FracMul(Weight(w, "rating"), rating_norm)))

\* Lines 109-156 for one row: the row with its derived columns assigned.
\* d is the row's distance_m and max_dist the batch's reference distance.
ScoredRow(row, cols, d, max_dist, p, w) ==
    LET score_distance == ScoreDistance(d, max_dist)
        score_cuisine == IF Truthy(PrefCuisine(p))
                         THEN StrContains(row["cuisine"], PrefCuisine(p).s)
                         ELSE Zero
        bucket == _infer_price_bucket(row).v
        score_price == IF HasPricePreference(PrefPrice(p))
                       THEN _score_price(bucket, NormalizedPrefPrice(PrefPrice(p)))
                       ELSE Zero
        rating_norm == RatingNorm(row, cols)
    IN  [c \in cols \cup DerivedColumns |->
            CASE c = "distance_m" -> d
              [] c = "score_distance" -> score_distance
              [] c = "score_cuisine" -> score_cuisine
              [] c = "price_bucket" -> Str(bucket)
              [] c = "score_price" -> score_price
              [] c = "rating_norm" -> rating_norm
              [] c = "score" -> CombinedScore(w, score_distance, score_cuisine,
                                              score_price, rating_norm)
              [] OTHER -> row[c]]

\* Each row scored with the distance of the row before it.
ScoredRows_NeighbourDistance(rows, cols, dist, p, w) ==
    [i \in 1..Len(rows) |->
        ScoredRow(rows[i], cols, dist[IF i > 1 THEN i - 1 ELSE i], MaxDist(dist), p, w)]

\* Lines 109-156 for the frame, dist being its distance_m column
ScoredRows(rows, cols, dist, p, w) ==
    [i \in 1..Len(rows) |-> ScoredRow(rows[i], cols, dist[i], MaxDist(dist), p, w)]

\* Lines 107-160, once the distance_m column can be computed.  (Each stage is
\* bound as the one element of a set, so that it is computed once.)
ScoreAndSort(rows, cols, p, coords, w) ==
    IF Truthy(PrefCuisine(p)) /\ "cuisine" \notin cols THEN Error("KeyError")
    ELSE IF Truthy(PrefCuisine(p)) /\ ~IsStr(PrefCuisine(p)) THEN Error("TypeError")
    ELSE IF Truthy(PrefCuisine(p)) /\ ~RegexCompiles(PrefCuisine(p).s) THEN Error("re.error")
    ELSE IF \E i \in 1..Len(rows) : ~_infer_price_bucket(rows[i]).ok
    THEN Error("AttributeError")
    ELSE IF Truthy(PrefPrice(p)) /\ ~IsStr(PrefPrice(p)) THEN Error("AttributeError")
    ELSE CHOOSE out \in
            { [status |-> "ok", cols |-> cols \cup DerivedColumns,
               assigned |-> scored, rows |-> SortValues(scored)] :
                 scored \in { ScoredRows(rows, cols, dist, p, w) :
                                dist \in {DistanceColumn(rows, cols, coords)} } } : TRUE

\* The column check made for lat only.
RankOutcome_LatOnly(rows, cols, p, coords, w, apply_keeps_frame) ==
    IF "lat" \notin cols THEN Error("ValueError")
    ELSE IF coords # None /\ rows = <<>> /\ apply_keeps_frame
    THEN Error("ValueError")
    ELSE IF coords # None /\ \E i \in 1..Len(rows) : ~RowDistance(coords, rows[i]).ok
    THEN Error(RowDistance(coords,
            rows[CHOOSE i \in 1..Len(rows) : ~RowDistance(coords, rows[i]).ok]).exc)
    ELSE ScoreAndSort(rows, cols, p, coords, w)

\* Lines 93-105, then the rest.
RankOutcome(rows, cols, p, coords, w, apply_keeps_frame) ==
    IF "lat" \notin cols \/ "lon" \notin cols THEN Error("ValueError")
    ELSE IF coords # None /\ rows = <<>> /\ apply_keeps_frame
    THEN Error("ValueError")
    ELSE IF coords # None /\ \E i \in 1..Len(rows) : ~RowDistance(coords, rows[i]).ok
    THEN Error(RowDistance(coords,
            rows[CHOOSE i \in 1..Len(rows) : ~RowDistance(coords, rows[i]).ok]).exc)
    ELSE ScoreAndSort(rows, cols, p, coords, w)

\* rank_restaurants(df, prefs, user_coords, weights): what it returns or raises
\* (out) and the caller's frame after the call (caller).  apply_keeps_frame is
\* the library's answer for df.apply(f, axis=1) on a frame without rows: TRUE
\* when it returns the (empty) frame itself, which cannot be assigned to one
\* column, FALSE when it returns an empty column.
rank_restaurants(frame, p, coords, w, apply_keeps_frame) ==
    CHOOSE r \in
        { [out |-> IF out.status = "ok"
                   THEN [status |-> "ok", cols |-> out.cols, rows |-> out.rows]
                   ELSE out,
           caller |-> IF DfCopy(frame).shared /\ out.status = "ok"
                      THEN [cols |-> out.cols, rows |-> out.assigned]
                      ELSE frame] :
             out \in { RankOutcome(DfCopy(frame).frame.rows, DfCopy(frame).frame.cols,
                                   p, coords, w, apply_keeps_frame) } } : TRUE

----------------------------------------------------------------------------
(* The inputs the calls are explored on *)

MaxRows == 2          \* rows of a candidate frame, general calls
MaxCuisineRows == 1   \* rows of a frame in the cuisine calls
MaxPriceRows == 1     \* rows of a frame in the price calls

Coords(lat, lon) == [t |-> "tuple", lat |-> lat, lon |-> lon]

\* The seeker of the tests, (6.21, -75.57)
Seeker == Coords(6210, -75570)

thai == <<"t","h","a","i">>
Thai == <<"T","h","a","i">>
sushi == <<"S","u","s","h","i">>

AllColumns ==
    {"name", "lat", "lon", "cuisine", "price_range", "price", "average_price",
     "avg_price", "tags", "rating", "distance_m"}

\* A candidate with every optional attribute missing, at (6.21, -75.571)
BlankRow ==
    [name |-> Str(<<>>), lat |-> Num(6210), lon |-> Num(-75571), cuisine |-> NaN,
     price_range |-> NaN, price |-> NaN, average_price |-> NaN, avg_price |-> NaN,
     tags |-> None, rating |-> NaN, distance_m |-> NaN]

\* Profiles of the general calls: places, distances carried in, ratings.
GeneralPool ==
    { [BlankRow EXCEPT !.cuisine = Str(thai), !.price_range = Str(low),
                       !.rating = Num(45), !.distance_m = Num(300), !.average_price = None],
      [BlankRow EXCEPT !.lat = Num(6220), !.lon = Num(-75572), !.cuisine = Str(sushi),
                       !.price_range = Str(high), !.rating = Num(40),
                       !.distance_m = Num(300), !.average_price = None],
      [BlankRow EXCEPT !.cuisine = Str(thai), !.price_range = Str(low),
                       !.rating = Num(45), !.average_price = None],
      [BlankRow EXCEPT !.lat = Num(6225), !.distance_m = Str(<<"f","a","r">>),
                       !.average_price = None],
      [BlankRow EXCEPT !.lat = Num(6220), !.lon = Num(-75572), !.rating = Num(20),
                       !.distance_m = Num(0), !.average_price = None],
      [BlankRow EXCEPT !.lat = Num(6225), !.rating = Str(<<"n","/","a">>),
                       !.distance_m = Str(<<"8","0","0">>), !.average_price = None],
      [BlankRow EXCEPT !.lon = Num(-75572), !.rating = Num(60),
                       !.distance_m = Num(-5), !.average_price = None] }

\* Profiles of the cuisine calls
CuisinePool ==
    { [BlankRow EXCEPT !.cuisine = c, !.average_price = None] :
        c \in {Str(Thai), Str(sushi), Str(<<>>), NaN, None} }

\* Profiles of the price calls
PricePool ==
    { [BlankRow EXCEPT !.price_range = Str(low), !.average_price = None],
      [BlankRow EXCEPT !.price_range = Str(<<" ","M","e","d","i","o"," ">>),
                       !.price = Str(<<"$">>), !.average_price = None],
      [BlankRow EXCEPT !.price_range = Str(high), !.average_price = Num(100)],
      [BlankRow EXCEPT !.price_range = Str(<<"c","h","e","a","p">>),
                       !.price = Str(<<"$","$">>), !.average_price = None],
      [BlankRow EXCEPT !.price = Str(<<"$","$","$","$">>), !.average_price = None],
      [BlankRow EXCEPT !.price = Str(<<"A","l","t","o">>), !.average_price = None],
      [BlankRow EXCEPT !.average_price = Num(45000)],
      [BlankRow EXCEPT !.average_price = Num(30000)],
      [BlankRow EXCEPT !.average_price = Num(60000), !.tags = Str(TagsCostText)],
      [BlankRow EXCEPT !.average_price = Num(0), !.avg_price = None],
      [BlankRow EXCEPT !.average_price = None, !.avg_price = Num(29999)],
      [BlankRow EXCEPT !.average_price = None, !.avg_price = None],
      [BlankRow EXCEPT !.average_price = None, !.avg_price = None,
                       !.tags = Str(TagsCostText)],
      [BlankRow EXCEPT !.average_price = None, !.avg_price = None,
                       !.tags = Dict([k \in {"price:class"} |-> Str(medium)])],
      [BlankRow EXCEPT !.average_price = None, !.avg_price = None,
                       !.tags = Str(TagsBrokenText)],
      [BlankRow EXCEPT !.average_price = None, !.avg_price = None,
                       !.tags = Str(TagsListText)],
      [BlankRow EXCEPT !.average_price = None, !.avg_price = None,
                       !.tags = Str(TagsQuotedText)],
      [BlankRow EXCEPT !.average_price = None, !.avg_price = None, !.tags = Num(123)],
      BlankRow }

\* The i-th row of a frame is named by its position, so rows are told apart.
RowName(i) == Str(<<Digits[i + 1]>>)

\* The frame with the given columns whose rows are the profiles, in order.
Frame(cols, profiles) ==
    [cols |-> cols,
     rows |-> [i \in 1..Len(profiles) |->
                 [c \in cols |-> IF c = "name" THEN RowName(i) ELSE profiles[i][c]]]]

SeqsUpTo(S, n) == UNION {[1..k -> S] : k \in 0..n}

\* pd.DataFrame(): no columns, no rows
EmptyFrame == [cols |-> {}, rows |-> <<>>]

GeneralFrames ==
    {EmptyFrame} \cup
    { Frame(cols, profiles) :
        cols \in {AllColumns, AllColumns \ {"distance_m"}, AllColumns \ {"lat"},
                  AllColumns \ {"lon"}, {"name", "lat", "lon"}},
        profiles \in SeqsUpTo(GeneralPool, MaxRows) }

PrefsOf(keys, cuisine, price) ==
    Dict([k \in keys |-> IF k = "cuisine" THEN cuisine ELSE price])

GeneralPrefs ==
    { None,
      PrefsOf({"cuisine", "price_range"}, Str(thai), Str(low)),
      PrefsOf({"cuisine", "price_range"}, Str(<<>>), Str(any)) }

GeneralWeights ==
    { None,
      Dict(EmptyMap),
      Dict([k \in {"distance"} |-> 100]),
      Dict([k \in {"cuisine", "price", "rating"} |->
              CASE k = "cuisine" -> 30 [] k = "price" -> 0 [] k = "rating" -> 100]) }

CuisinePrefTexts ==
    { thai, <<"T","H","A","I">>, <<"h","a">>, <<"u","s">>, <<"x">>, <<".">>,
      <<"t",".","a","i">>, <<"(">>, <<>> }

CuisinePrefs ==
    { None, Dict(EmptyMap), PrefsOf({"cuisine"}, None, None) } \cup
    { PrefsOf({"cuisine"}, Str(c), None) : c \in CuisinePrefTexts }

PricePrefTexts ==
    { low, medium, high, <<"M","e","d","i","u","m">>, medio, moderada,
      <<" ","a","l","t","a"," ">>, baja, <<"c","h","e","a","p">>, unknown,
      any, <<"A","N","Y">>, <<" ","a","n","y">>, <<" ">>, <<>> }

PricePrefs ==
    { Dict(EmptyMap), PrefsOf({"price_range"}, None, None) } \cup
    { PrefsOf({k}, None, Str(x)) : k \in {"price_range", "price"}, x \in PricePrefTexts }

InitGeneral ==
    /\ df \in GeneralFrames
    /\ prefs \in GeneralPrefs
    /\ user_coords \in {None, Seeker}
    /\ weights \in GeneralWeights

InitCuisine ==
    /\ df \in { Frame(cols, profiles) :
                  cols \in {AllColumns, AllColumns \ {"cuisine"}},
                  profiles \in SeqsUpTo(CuisinePool, MaxCuisineRows) }
    /\ prefs \in CuisinePrefs
    /\ user_coords \in {None, Seeker}
    /\ weights = None

InitPrice ==
    /\ df \in { Frame(AllColumns, profiles) : profiles \in SeqsUpTo(PricePool, MaxPriceRows) }
    /\ prefs \in PricePrefs
    /\ user_coords = Seeker
    /\ weights \in {None, Dict([k \in {"price"} |-> 100])}

\* Two candidates that differ in their cuisine only
PairCuisines == {Str(Thai), Str(sushi), Str(<<"t",".","a","i">>), NaN}

PairFrames ==
    { Frame(AllColumns,
            <<[BlankRow EXCEPT !.cuisine = a, !.price_range = Str(low),
                               !.rating = Num(40), !.average_price = None],
              [BlankRow EXCEPT !.cuisine = b, !.price_range = Str(low),
                               !.rating = Num(40), !.average_price = None]>>) :
        a \in PairCuisines, b \in PairCuisines }

PairPrefs ==
    { Dict(EmptyMap) } \cup
    { PrefsOf({"cuisine"}, Str(c), None) :
        c \in {thai, sushi, <<"a","i">>, <<"s">>, <<"x">>, <<"t",".","a","i">>} }

PairWeights ==
    { None,
      Dict([k \in {"cuisine"} |-> 1]),
      Dict([k \in {"distance", "cuisine", "price", "rating"} |->
              IF k = "cuisine" THEN 0 ELSE 25]) }

InitPair ==
    /\ df \in PairFrames
    /\ prefs \in PairPrefs
    /\ user_coords \in {None, Seeker}
    /\ weights \in PairWeights

MaxThreads == 2       \* threads that call rank_restaurants concurrently
MaxCalls == 3         \* calls begun in one run of the threads

Threads == 1..MaxThreads

\* A thread that is not inside rank_restaurants
Idle ==
    [at |-> "idle", p |-> None, coords |-> None, shared |-> FALSE,
     frame |-> EmptyFrame, out |-> [status |-> "none"]]

Init ==
    /\ InitGeneral \/ InitCuisine \/ InitPrice \/ InitPair
    /\ result = [status |-> "none"]
    /\ pc = "ready"
    /\ work = [t \in Threads |-> Idle]
    /\ log = {}
    /\ made = 0
    /\ geo = Unused /\ expl = Unused /\ limiter = Unused
    /\ search = Unused /\ app = Unused /\ metro = Unused

\* One call rank_restaurants(df, prefs, user_coords, weights) by the caller.
Call ==
    /\ pc = "ready"
    /\ \E apply_keeps_frame \in BOOLEAN :
          \E r \in {rank_restaurants(df, prefs, user_coords, weights, apply_keeps_frame)} :
              /\ result' = r.out
              /\ df' = r.caller
    /\ pc' = "done"
    /\ UNCHANGED <<prefs, user_coords, weights, work, log, made, besideRanking>>

Next == Call

Spec == Init /\ [][Next]_vars

----------------------------------------------------------------------------
(* Calls of rank_restaurants made by concurrent threads on one frame.  A   *)
(* call is taken in the steps in which it touches data another call could  *)
(* see: df.copy() (line 93), the assignment of distance_m (lines 95-105),  *)
(* the assignment of the other derived columns (lines 107-156), and the    *)
(* sort and return (lines 159-160).                                        *)

MaxThreadRows == 2    \* rows of the frame the threads rank

ThreadPool ==
    { [BlankRow EXCEPT !.cuisine = Str(thai), !.price_range = Str(low),
                       !.rating = Num(45), !.distance_m = Num(300), !.average_price = None],
      [BlankRow EXCEPT !.lat = Num(6220), !.lon = Num(-75572), !.cuisine = Str(sushi),
                       !.price_range = Str(high), !.rating = Num(40),
                       !.distance_m = Num(300), !.average_price = None],
      [BlankRow EXCEPT !.lat = Num(6220), !.lon = Num(-75572), !.rating = Num(20),
                       !.distance_m = Num(0), !.average_price = None] }

ThreadFrames ==
    { Frame(AllColumns, profiles) :
        profiles \in SeqsUpTo(ThreadPool, MaxThreadRows) \ {<<>>} }

ThreadPrefs == { None, PrefsOf({"cuisine", "price_range"}, Str(thai), Str(low)) }

InitThreads ==
    /\ df \in ThreadFrames
    /\ weights \in {None, Dict([k \in {"distance"} |-> 100])}
    /\ prefs = None
    /\ user_coords = None
    /\ result = [status |-> "none"]
    /\ pc = "threads"
    /\ work = [t \in Threads |-> Idle]
    /\ log = {}
    /\ made = 0
    /\ geo = Unused /\ expl = Unused /\ limiter = Unused
    /\ search = Unused /\ app = Unused /\ metro = Unused

\* The frame thread t's call works on: its own copy, or the caller's frame
\* when the copy shares it.
Visible(t) == IF work[t].shared THEN df ELSE work[t].frame

\* The frame with distance_m assigned from the seeker coordinates (line 105)
WithDistance(frame, coords) ==
    [cols |-> frame.cols \cup {"distance_m"},
     rows |-> [i \in 1..Len(frame.rows) |->
                 [c \in frame.cols \cup {"distance_m"} |->
                     IF c = "distance_m"
                     THEN DistanceColumn(frame.rows, frame.cols, coords)[i]
                     ELSE frame.rows[i][c]]]]

\* The assignments of a call made to the caller's frame as well.
Store_ToCallerFrame(t, frame, w) ==
    /\ df' = frame
    /\ work' = [w EXCEPT ![t].frame = frame]

\* Thread t stores the frame its call works on.
Store(t, frame, w) ==
    IF work[t].shared
    THEN /\ df' = frame
         /\ work' = w
    ELSE /\ df' = df
         /\ work' = [w EXCEPT ![t].frame = frame]

\* Thread t enters rank_restaurants(df, p, coords, weights): line 93
Begin(t) ==
    /\ pc = "threads"
    /\ work[t].at = "idle"
    /\ made < MaxCalls
    /\ \E p \in ThreadPrefs, coords \in {None, Seeker} :
          work' = [work EXCEPT ![t] =
                      [at |-> "copied", p |-> p, coords |-> coords,
                       shared |-> DfCopy(df).shared, frame |-> DfCopy(df).frame,
                       out |-> [status |-> "none"]]]
    /\ made' = made + 1
    /\ UNCHANGED <<df, prefs, user_coords, weights, result, pc, log, besideRanking>>

\* Lines 95-105: the column check and the distance from the seeker
Measure(t) ==
    /\ pc = "threads"
    /\ work[t].at = "copied"
    /\ LET frame == Visible(t)
           coords == work[t].coords
       IN  IF "lat" \notin frame.cols \/ "lon" \notin frame.cols
           THEN /\ work' = [work EXCEPT ![t].at = "scored", ![t].out = Error("ValueError")]
                /\ df' = df
           ELSE IF coords # None
                   /\ \E i \in 1..Len(frame.rows) : ~RowDistance(coords, frame.rows[i]).ok
           THEN /\ work' = [work EXCEPT
                              ![t].at = "scored",
                              ![t].out = Error(RowDistance(coords,
                                  frame.rows[CHOOSE i \in 1..Len(frame.rows) :
                                      ~RowDistance(coords, frame.rows[i]).ok]).exc)]
                /\ df' = df
           ELSE IF coords # None
           THEN Store(t, WithDistance(frame, coords), [work EXCEPT ![t].at = "measured"])
           ELSE /\ work' = [work EXCEPT ![t].at = "measured"]
                /\ df' = df
    /\ UNCHANGED <<prefs, user_coords, weights, result, pc, log, made, besideRanking>>

\* Lines 107-159: distance_m made numeric, the sub-scores, the score, the sort
Score(t) ==
    /\ pc = "threads"
    /\ work[t].at = "measured"
    /\ \E out \in {ScoreAndSort(Visible(t).rows, Visible(t).cols, work[t].p, None, weights)} :
          IF out.status = "ok"
          THEN Store(t, [cols |-> out.cols, rows |-> out.assigned],
                     [work EXCEPT ![t].at = "scored",
                                  ![t].out = [status |-> "ok", cols |-> out.cols,
                                              rows |-> out.rows]])
          ELSE /\ work' = [work EXCEPT ![t].at = "scored", ![t].out = out]
               /\ df' = df
    /\ UNCHANGED <<prefs, user_coords, weights, result, pc, log, made, besideRanking>>

\* Line 160: the call returns (or its exception reaches the caller)
Return(t) ==
    /\ pc = "threads"
    /\ work[t].at = "scored"
    /\ log' = log \cup {[p |-> work[t].p, coords |-> work[t].coords, out |-> work[t].out]}
    /\ work' = [work EXCEPT ![t] = Idle]
    /\ UNCHANGED <<df, prefs, user_coords, weights, result, pc, made, besideRanking>>

NextThreads == \E t \in Threads : Begin(t) \/ Measure(t) \/ Score(t) \/ Return(t)

SpecThreads == InitThreads /\ [][NextThreads]_vars

----------------------------------------------------------------------------
(* Properties of rank_restaurants *)

Done == pc = "done"
Returned == pc = "done" /\ result.status = "ok"

\* The position in the caller's frame of the candidate a result row stands for
InputIndex(row) == CHOOSE i \in 1..Len(df.rows) : df.rows[i]["name"] = row["name"]
InputRow(row) == df.rows[InputIndex(row)]

Missing(row) == ~IsNum(row["distance_m"])

\* C1: in every result, for rows at positions i < j: score_i > score_j; or the
\* scores are equal and distance_i < distance_j, a missing distance counting as
\* larger than every known one; or score and distance are equal (or both
\* distances missing) and row i came before row j in the input.
C1_SortedStable ==
    Returned =>
        \A i, j \in 1..Len(result.rows) :
            i < j =>
                LET a == result.rows[i]
                    b == result.rows[j]
                IN  \/ FracLt(b["score"], a["score"])
                    \/ /\ a["score"] = b["score"]
                       /\ \/ ~Missing(a) /\ Missing(b)
                          \/ ~Missing(a) /\ ~Missing(b)
                             /\ a["distance_m"].n < b["distance_m"].n
                    \/ /\ a["score"] = b["score"]
                       /\ \/ Missing(a) /\ Missing(b)
                          \/ ~Missing(a) /\ ~Missing(b)
                             /\ a["distance_m"].n = b["distance_m"].n
                       /\ InputIndex(a) < InputIndex(b)

\* A result whose two rows tie on the score, the one with the known distance
\* placed first although it came second in the input.
C1_Witness ==
    /\ Returned
    /\ Len(result.rows) = 2
    /\ result.rows[1]["score"] = result.rows[2]["score"]
    /\ ~Missing(result.rows[1]) /\ Missing(result.rows[2])
    /\ InputIndex(result.rows[1]) = 2

\* w[key] of the claim: the caller's weight, the default when no vector is given
ClaimedWeight(key) ==
    IF weights = None
    THEN Frac(CASE key = "distance" -> 50 [] key = "cuisine" -> 25
                [] key = "price" -> 15 [] key = "rating" -> 10, 100)
    ELSE IF key \in DOMAIN weights.d THEN Frac(weights.d[key], 100) ELSE Zero

\* C2: for every candidate of a result, score = w.distance*score_distance +
\* w.cuisine*score_cuisine + w.price*score_price + w.rating*rating_norm, w being
\* the caller's weights or the default {0.5, 0.25, 0.15, 0.1}.
C2_WeightedSum ==
    Returned =>
        \A i \in 1..Len(result.rows) :
            LET r == result.rows[i]
            IN  r["score"] =
                    FracAdd(FracMul(ClaimedWeight("distance"), r["score_distance"]),
                        FracAdd(FracMul(ClaimedWeight("cuisine"), r["score_cuisine"]),
                            FracAdd(FracMul(ClaimedWeight("price"), r["score_price"]),
                                    FracMul(ClaimedWeight("rating"), r["rating_norm"]))))

\* Caller's weights that do not sum to 1 with a price weight of 0: a candidate
\* that matches the price preference has a score made of the other factors only.
C2_Witness ==
    /\ Returned
    /\ weights # None
    /\ "price" \in DOMAIN weights.d /\ weights.d["price"] = 0
    /\ \E i \in 1..Len(result.rows) :
          /\ result.rows[i]["score_price"] = One
          /\ result.rows[i]["score_cuisine"] = One
          /\ result.rows[i]["score"] =
                FracAdd(Frac(30, 100), FracMul(One, result.rows[i]["rating_norm"]))

\* C3 (as claimed): a call on a candidate collection of zero rows always reports
\* an error and never returns a result.
C3_EmptyIsError ==
    (Done /\ df.rows = <<>>) => result.status = "error"

\* C4: on a non-empty collection that lacks the lat or the lon column the call
\* reports the ValueError of the column check and returns no result.
C4_MissingCoordinateColumns ==
    (Done /\ df.rows # <<>> /\ ("lat" \notin df.cols \/ "lon" \notin df.cols))
        => result = Error("ValueError")

\* A non-empty frame that has lat but no lon, ranked with seeker coordinates
C4_Witness ==
    /\ Done
    /\ Len(df.rows) = 2
    /\ "lat" \in df.cols /\ "lon" \notin df.cols
    /\ user_coords # None
    /\ result.status = "error"

\* C5: a successful call returns a permutation of its input: as many rows, and
\* each input candidate exactly once, with the columns it came with
\* (distance_m aside, which the call computes).
C5_Permutation ==
    Returned =>
        /\ Len(result.rows) = Len(df.rows)
        /\ \A i \in 1..Len(df.rows) :
              Cardinality({j \in 1..Len(result.rows) :
                  \A c \in df.cols \ {"distance_m"} :
                      result.rows[j][c] = df.rows[i][c]}) = 1

\* Two candidates, one without a distance, returned in the other order
C5_Witness ==
    /\ Returned
    /\ Len(result.rows) = 2
    /\ result.rows[1]["name"] = df.rows[2]["name"]
    /\ result.rows[2]["name"] = df.rows[1]["name"]
    /\ Missing(result.rows[2])

\* C6: the call leaves the caller's frame, preference record and weight vector
\* as they were, whether it returns or reports an error.
C6_CallerStateUnchanged ==
    [][df' = df /\ prefs' = prefs /\ weights' = weights]_vars

\* A call that returned rows with derived columns and a recomputed distance,
\* the caller's frame still carrying its own distance_m and no derived column
C6_Witness ==
    /\ Returned
    /\ Len(df.rows) = 2
    /\ "distance_m" \in df.cols
    /\ "score" \notin df.cols /\ "score" \in result.cols
    /\ df.rows[1]["distance_m"] = Num(300)
    /\ \A j \in 1..2 : result.rows[j]["distance_m"] # Num(300)

\* The reference distance of the claim, from the distances of the result
ClaimedReference ==
    LET known == {result.rows[i]["distance_m"].n :
                    i \in {j \in 1..Len(result.rows) : ~Missing(result.rows[j])}}
    IN  IF known = {} \/ \A x \in known : x <= 0 THEN 5000
        ELSE CHOOSE x \in known : \A y \in known : y <= x

\* C7: score_distance = max(0, 1 - distance_m/ref) when distance_m is known and
\* 0 when it is missing, ref being the largest known distance of the batch, or
\* 5000 when there is none or it is not positive; no candidate is dropped.
C7_ScoreDistance ==
    Returned =>
        /\ Len(result.rows) = Len(df.rows)
        /\ \A i \in 1..Len(result.rows) :
              LET r == result.rows[i]
                  claimed == Frac(ClaimedReference - r["distance_m"].n, ClaimedReference)
              IN  IF Missing(r) THEN r["score_distance"] = Zero
                  ELSE r["score_distance"] = (IF claimed.n < 0 THEN Zero ELSE claimed)

\* A candidate with a missing distance (scored 0, still present) beside one at
\* distance 0, the only known distance: 5000 is the reference and it scores 1.
C7_Witness ==
    /\ Returned
    /\ Len(result.rows) = 2
    /\ \E i, j \in 1..2 :
          /\ Missing(result.rows[i]) /\ result.rows[i]["score_distance"] = Zero
          /\ result.rows[j]["distance_m"] = Num(0)
          /\ result.rows[j]["score_distance"] = One

\* C8: with seeker coordinates, distance_m of every result row is the haversine
\* distance from the seeker to the row's lat/lon, whatever distance_m the input
\* carried; without them each row keeps its numeric distance_m, and has a
\* missing one when the value is not numeric or the column is absent.
C8_DistanceSource ==
    Returned =>
        \A i \in 1..Len(result.rows) :
            LET r == result.rows[i]
                in == InputRow(r)
            IN  IF user_coords # None
                THEN r["distance_m"] =
                        Num(haversine_meters(user_coords.lat, user_coords.lon,
                                             in["lat"].n, in["lon"].n))
                ELSE IF "distance_m" \in df.cols /\ IsNum(in["distance_m"])
                THEN r["distance_m"] = in["distance_m"]
                ELSE IF "distance_m" \in df.cols /\ IsStr(in["distance_m"])
                        /\ IsDecimalText(in["distance_m"].s)
                THEN r["distance_m"] = Num(DecimalValue(in["distance_m"].s))
                ELSE r["distance_m"] = NaN

\* Seeker coordinates given and a candidate that arrived with distance_m = 300:
\* the result carries the 110 m computed from its coordinates.
C8_Witness ==
    /\ Returned
    /\ user_coords # None
    /\ \E i \in 1..Len(result.rows) :
          /\ "distance_m" \in df.cols
          /\ InputRow(result.rows[i])["distance_m"] = Num(300)
          /\ result.rows[i]["distance_m"] = Num(110)

\* text contains frag as a literal substring, letter case ignored
ContainsIgnoreCase(text, frag) ==
    \E k \in 0..(Len(text) - Len(frag)) :
        Lower(SubSeq(text, k + 1, k + Len(frag))) = Lower(frag)

\* The cuisine preference as text: empty when absent, None or prefs is None
ClaimedPrefCuisine ==
    IF prefs # None /\ "cuisine" \in DOMAIN prefs.d /\ IsStr(prefs.d["cuisine"])
    THEN prefs.d["cuisine"].s ELSE <<>>

ClaimedPrefPrice ==
    IF prefs # None /\ "price_range" \in DOMAIN prefs.d /\ IsStr(prefs.d["price_range"])
    THEN LET p == Strip(Lower(prefs.d["price_range"].s))
         IN  IF p \in {medio, media, moderado, moderada} THEN medium
             ELSE IF p \in {alto, alta} THEN high
             ELSE IF p \in {bajo, baja} THEN low
             ELSE p
    ELSE <<>>

\* C10: when the normalised price preference is neither empty nor 'any',
\* score_price is 1.0 for a candidate whose price_bucket equals it, else 0.2 for
\* an unknown bucket, else 0.5 for adjacent buckets, else 0.0.
C10_ScorePrice ==
    (Returned /\ ClaimedPrefPrice \notin {<<>>, any}) =>
        \A i \in 1..Len(result.rows) :
            LET r == result.rows[i]
                bucket == r["price_bucket"].s
            IN  r["score_price"] =
                    (IF bucket = ClaimedPrefPrice THEN One
                     ELSE IF bucket = unknown THEN Frac(1, 5)
                     ELSE IF <<bucket, ClaimedPrefPrice>> \in
                                {<<low, medium>>, <<medium, low>>,
                                 <<medium, high>>, <<high, medium>>}
                     THEN Frac(1, 2)
                     ELSE Zero)

\* The preference " alta " (high after trimming and mapping) against a candidate
\* whose price_range " Medio " makes it medium: adjacent buckets, 0.5
C10_Witness ==
    /\ Returned
    /\ prefs # None /\ "price_range" \in DOMAIN prefs.d
    /\ prefs.d["price_range"] = Str(<<" ","a","l","t","a"," ">>)
    /\ \E i \in 1..Len(result.rows) :
          /\ result.rows[i]["price_bucket"] = Str(medium)
          /\ result.rows[i]["score_price"] = Frac(1, 2)

\* The names of the rows, in order
NamesOf(rows) == [i \in 1..Len(rows) |-> rows[i]["name"]]

PriceColumns == {"price_range", "price", "average_price", "avg_price", "tags"}

\* The frame with the given columns emptied (every value None)
Blanked(frame, columns) ==
    [cols |-> frame.cols,
     rows |-> [i \in 1..Len(frame.rows) |->
                 [c \in frame.cols |-> IF c \in columns THEN None ELSE frame.rows[i][c]]]]

\* What the same call returns for another frame
Reranked(frame) == rank_restaurants(frame, prefs, user_coords, weights, FALSE).out

\* The price preference the caller gave, under price_range or else under price
GivenPrefPrice ==
    IF prefs = None THEN None
    ELSE IF "price_range" \in DOMAIN prefs.d THEN prefs.d["price_range"]
    ELSE IF "price" \in DOMAIN prefs.d THEN prefs.d["price"]
    ELSE None

\* Absent, None, the empty text, or 'any' in any letter case
NeutralPrefPrice ==
    \/ GivenPrefPrice = None
    \/ IsStr(GivenPrefPrice) /\ Lower(GivenPrefPrice.s) \in {<<>>, any}

\* Absent, None or the empty text
NeutralPrefCuisine ==
    \/ prefs = None
    \/ "cuisine" \notin DOMAIN prefs.d
    \/ prefs.d["cuisine"] \in {None, Str(<<>>)}

\* C11: when the price preference is absent, None, empty or 'any' (any letter
\* case), score_price is 0.0 for every candidate and the order of the result is
\* the order obtained with the candidates' price data removed; when the cuisine
\* preference is absent, None or empty, score_cuisine is 0.0 for every candidate
\* and the order is the one obtained with the cuisine data removed.
C11_NeutralPreference ==
    Returned =>
        /\ NeutralPrefPrice =>
              /\ \A i \in 1..Len(result.rows) : result.rows[i]["score_price"] = Zero
              /\ Reranked(Blanked(df, PriceColumns)).status = "ok"
              /\ NamesOf(result.rows) = NamesOf(Reranked(Blanked(df, PriceColumns)).rows)
        /\ NeutralPrefCuisine =>
              /\ \A i \in 1..Len(result.rows) : result.rows[i]["score_cuisine"] = Zero
              /\ Reranked(Blanked(df, {"cuisine"})).status = "ok"
              /\ NamesOf(result.rows) = NamesOf(Reranked(Blanked(df, {"cuisine"})).rows)

\* The preferences {"cuisine": "", "price_range": "any"} on two candidates of
\* different price bucket and cuisine
C11_Witness ==
    /\ Returned
    /\ prefs = PrefsOf({"cuisine", "price_range"}, Str(<<>>), Str(any))
    /\ Len(result.rows) = 2
    /\ result.rows[1]["price_bucket"] = Str(low)
    /\ result.rows[2]["price_bucket"] = Str(high)
    /\ result.rows[1]["cuisine"] # result.rows[2]["cuisine"]
    /\ result.rows[1]["score_price"] = Zero

\* What the same call returns for another preference record
RankedWith(p) == rank_restaurants(df, p, user_coords, weights, FALSE).out

\* The record p with its price entry given under price_range instead
UnderPriceRange(p) ==
    Dict([k \in (DOMAIN p.d \ {"price"}) \cup {"price_range"} |->
            IF k = "price_range" THEN p.d["price"] ELSE p.d[k]])

\* C12 (as claimed): a preference record that gives the price under the key
\* price, and has no price_range key, produces the same result (score_price,
\* score, order) as the record that gives the same value under price_range.
C12_PriceAlias ==
    (Returned /\ prefs # None /\ "price" \in DOMAIN prefs.d
              /\ "price_range" \notin DOMAIN prefs.d)
        => result = RankedWith(UnderPriceRange(prefs))

\* The numeric average price of the claims: average_price when it is a number,
\* else avg_price when it is a number, else None (a null value is not a number).
ClaimedAveragePrice(row) ==
    IF IsNum(ToNumeric(Get(row, "average_price", None)))
    THEN ToNumeric(Get(row, "average_price", None))
    ELSE IF IsNum(ToNumeric(Get(row, "avg_price", None)))
    THEN ToNumeric(Get(row, "avg_price", None))
    ELSE None

\* Rule (3) as claimed: the thresholds on the numeric average price
ClaimedBucketFromAverage(row) ==
    LET v == ClaimedAveragePrice(row)
    IN  IF v = None THEN <<>>
        ELSE IF v.n < 30000 THEN low
        ELSE IF v.n < 60000 THEN medium
        ELSE high

\* The tags of a row as the mapping the claims speak of: the mapping itself,
\* the mapping its text serialises, and the empty mapping for anything else.
ClaimedTags(raw) ==
    IF raw.t = "dict" THEN raw.d
    ELSE IF raw.t = "str" /\ literal_eval(raw.s).ok /\ literal_eval(raw.s).v.t = "dict"
    THEN literal_eval(raw.s).v.d
    ELSE EmptyMap

\* Rule (4) as claimed: tags price, price:class or cost, mapped as rule (2)
ClaimedBucketFromTags(row) ==
    LET tags == ClaimedTags(Get(row, "tags", None))
    IN  BucketFromSymbol(Or(Or(Get(tags, "price", None), Get(tags, "price:class", None)),
                            Get(tags, "cost", None)))

\* The answer of the first rule that gives one, else unknown
ClaimedBucket(row) ==
    IF BucketFromPriceRange(Get(row, "price_range", None)) # <<>>
    THEN BucketFromPriceRange(Get(row, "price_range", None))
    ELSE IF BucketFromSymbol(Get(row, "price", None)) # <<>>
    THEN BucketFromSymbol(Get(row, "price", None))
    ELSE IF ClaimedBucketFromAverage(row) # <<>> THEN ClaimedBucketFromAverage(row)
    ELSE IF ClaimedBucketFromTags(row) # <<>> THEN ClaimedBucketFromTags(row)
    ELSE unknown

\* C13 (as claimed): the price bucket of every candidate is the answer of the
\* first rule that applies, in the order price_range spelling, price symbol or
\* bucket word, numeric average price by thresholds, tags price / price:class /
\* cost, and unknown when none applies; it is one of low, medium, high, unknown.
C13_BucketPrecedence ==
    Returned =>
        \A i \in 1..Len(result.rows) :
            /\ result.rows[i]["price_bucket"] = Str(ClaimedBucket(InputRow(result.rows[i])))
            /\ result.rows[i]["price_bucket"].s \in {low, medium, high, unknown}

\* C14 (as claimed): for a candidate whose price_range and price give no bucket
\* and whose numeric average price (average_price, else avg_price) is a number
\* v, the bucket is low when v < 30000, medium when 30000 <= v < 60000 and high
\* when v >= 60000, for every v including 0 and the boundaries, whatever the
\* tags hold.
C14_AverageThresholds ==
    Returned =>
        \A i \in 1..Len(result.rows) :
            LET row == InputRow(result.rows[i])
                v == ClaimedAveragePrice(row)
            IN  (/\ BucketFromPriceRange(Get(row, "price_range", None)) = <<>>
                 /\ BucketFromSymbol(Get(row, "price", None)) = <<>>
                 /\ v # None)
                    => result.rows[i]["price_bucket"] =
                          Str(IF v.n < 30000 THEN low
                              ELSE IF v.n < 60000 THEN medium
                              ELSE high)

\* No rule of the claimed precedence answers: price_range and price absent, null
\* or unrecognised, no numeric average price, no usable tags
NoUsablePrice(row) ==
    /\ BucketFromPriceRange(Get(row, "price_range", None)) = <<>>
    /\ BucketFromSymbol(Get(row, "price", None)) = <<>>
    /\ ClaimedAveragePrice(row) = None
    /\ ClaimedBucketFromTags(row) = <<>>

\* C15 (as claimed): for a candidate with no usable price information the
\* normalizer returns unknown and does not raise; in particular a null (NaN)
\* average price is never bucketed by the thresholds.
C15_MissingIsUnknown ==
    Done =>
        \A i \in 1..Len(df.rows) :
            NoUsablePrice(df.rows[i]) =>
                _infer_price_bucket(df.rows[i]) = [ok |-> TRUE, v |-> unknown]

\* C16 (as claimed): tag parsing, by safe_parse_tags and by _safe_parse_tags,
\* returns a mapping for every input: the input when it is a mapping, the
\* parsed mapping when it is the text of one, and the empty mapping for every
\* other input (None, numbers, unparsable text, text of a list, a number or a
\* quoted string).
C16_TagsAlwaysMapping ==
    Done =>
        \A i \in 1..Len(df.rows) :
            LET raw == Get(df.rows[i], "tags", None)
            IN  /\ _safe_parse_tags(raw) = Dict(ClaimedTags(raw))
                /\ safe_parse_tags(raw) = Dict(ClaimedTags(raw))

\* C17 (as claimed): for a non-empty candidate collection that has lat and lon
\* columns and a preference record of plain texts, the call returns a ranked
\* result whatever anomaly a row carries (malformed tags, non-numeric rating or
\* prices, a missing cuisine, price or rating value or column); a candidate
\* without a numeric rating gets rating_norm 0 and one without a cuisine gets
\* score_cuisine 0.
C17_RowAnomaliesAbsorbed ==
    (/\ Done
     /\ df.rows # <<>>
     /\ {"lat", "lon"} \subseteq df.cols
     /\ RegexCompiles(ClaimedPrefCuisine)
     /\ IsNull(GivenPrefPrice) \/ IsStr(GivenPrefPrice))
        => /\ result.status = "ok"
           /\ \A i \in 1..Len(result.rows) :
                 LET r == result.rows[i]
                 IN  /\ ~IsNum(ToNumeric(Get(InputRow(r), "rating", None)))
                            => r["rating_norm"] = Zero
                     /\ ~IsStr(Get(InputRow(r), "cuisine", None))
                            => r["score_cuisine"] = Zero

\* 0 <= f <= 1
InUnitInterval(f) == ~FracLt(f, Zero) /\ ~FracLt(One, f)

\* C18 (as claimed): in every result, each of score_distance, score_cuisine,
\* score_price and rating_norm of every candidate lies in [0,1], whatever the
\* numeric rating and the numeric distance_m the candidate arrived with.
C18_SubScoresInUnitInterval ==
    Returned =>
        \A i \in 1..Len(result.rows) :
            \A c \in {"score_distance", "score_cuisine", "score_price", "rating_norm"} :
                InUnitInterval(result.rows[i][c])

\* Every call that returned gave what rank_restaurants gives for its arguments
\* alone, and two calls with the same arguments gave the same.
ReturnsDependOnArgumentsOnly ==
    \A a \in log :
        /\ a.out = rank_restaurants(df, a.p, a.coords, weights, FALSE).out
        /\ \A b \in log : (a.p = b.p /\ a.coords = b.coords) => a.out = b.out

\* C19: rank_restaurants is a pure function of its arguments: calls with
\* identical candidates, preferences, coordinates and weights return identical
\* orderings and derived values, whatever calls were made before them or run
\* interleaved with them in other threads; no step of a call writes the frame
\* or the weights the calls share.
C19_PureFunction ==
    /\ []ReturnsDependOnArgumentsOnly
    /\ [][df' = df /\ weights' = weights]_vars

\* A call has finished with the result an earlier call with the same arguments
\* returned, while another thread is inside a call with other coordinates.
C19_Witness ==
    \E t \in Threads, a \in log :
        /\ work[t].at = "scored"
        /\ a.p = work[t].p /\ a.coords = work[t].coords
        /\ a.out = work[t].out /\ a.out.status = "ok" /\ Len(a.out.rows) = 2
        /\ \E u \in Threads \ {t} :
              work[u].at \in {"measured", "scored"} /\ work[u].coords # a.coords

\* The largest known distance_m of a result, None when no distance is known
KnownMax(rows) ==
    LET known == {rows[i]["distance_m"].n : i \in {j \in 1..Len(rows) : IsNum(rows[j]["distance_m"])}}
    IN  IF known = {} THEN None ELSE Num(CHOOSE x \in known : \A y \in known : y <= x)

\* A row of the given profile for the frame of the call, under another name
Stranger(profile) ==
    [c \in df.cols |-> IF c = "name" THEN Str(<<"x">>) ELSE profile[c]]

\* Other batches that hold the candidate: the candidate alone, and the
\* candidate after one other candidate
OtherBatches(candidate) ==
    { [cols |-> df.cols, rows |-> <<candidate>>] } \cup
    { [cols |-> df.cols, rows |-> <<Stranger(q), candidate>>] : q \in GeneralPool }

\* The row of the candidate of that name
RowNamed(rows, name) == rows[CHOOSE i \in 1..Len(rows) : rows[i]["name"] = name]

\* C20: a candidate's derived fields depend on the rest of the batch only
\* through the batch's largest known distance: ranked in another batch with the
\* same preferences, coordinates and weights, the candidate gets the same
\* price_bucket, score_cuisine, score_price and rating_norm, and when the two
\* batches have the same largest known distance also the same distance_m,
\* score_distance and score.
C20_RowLocal ==
    Returned =>
        \A i \in 1..Len(result.rows) :
            \A batch \in OtherBatches(InputRow(result.rows[i])) :
                \A other \in {Reranked(batch)} :
                    other.status = "ok" =>
                        LET here == result.rows[i]
                            there == RowNamed(other.rows, here["name"])
                        IN  /\ \A c \in {"price_bucket", "score_cuisine", "score_price",
                                         "rating_norm"} : there[c] = here[c]
                            /\ KnownMax(other.rows) = KnownMax(result.rows) =>
                                  \A c \in {"distance_m", "score_distance", "score"} :
                                      there[c] = here[c]

\* Two candidates ranked with preferences and seeker coordinates; one of them,
\* ranked alone, is at another largest distance and gets another score_distance
\* and the same price and cuisine scores; and a batch with another companion,
\* at the same largest distance, holds it too.
C20_Witness ==
    /\ Returned
    /\ Len(result.rows) = 2
    /\ user_coords = Seeker
    /\ prefs = PrefsOf({"cuisine", "price_range"}, Str(thai), Str(low))
    /\ \E i \in 1..2 :
          LET here == result.rows[i]
              alone == Reranked([cols |-> df.cols, rows |-> <<InputRow(here)>>])
          IN  /\ alone.status = "ok"
              /\ alone.rows[1]["score_distance"] # here["score_distance"]
              /\ alone.rows[1]["score_price"] = here["score_price"]
              /\ here["score_price"] = One
              /\ \E batch \in OtherBatches(InputRow(here)) :
                    /\ Len(batch.rows) = 2
                    /\ batch.rows[1]["rating"] # InputRow(result.rows[3 - i])["rating"]
                    /\ KnownMax(Reranked(batch).rows) = KnownMax(result.rows)

\* The two candidates of the call differ in name and cuisine at most
PairDiffersInCuisineOnly ==
    /\ Len(df.rows) = 2
    /\ \A c \in df.cols \ {"name", "cuisine"} : df.rows[1][c] = df.rows[2][c]

\* The candidate's cuisine contains the preference cuisine, letter case ignored
CuisineMatches(row) ==
    /\ ClaimedPrefCuisine # <<>>
    /\ IsStr(row["cuisine"])
    /\ ContainsIgnoreCase(row["cuisine"].s, ClaimedPrefCuisine)

\* The cuisine weight of the call: the default when no weights are supplied
CuisineWeight == IF weights = None THEN 25 ELSE Get(weights.d, "cuisine", 0)

\* C21 (as claimed): of two candidates with equal distance, rating and price
\* data, exactly one of which has a cuisine matching the preference, the
\* matching one is placed first under the default weights or any positive
\* cuisine weight, whichever comes first in the input.
C21_MatchingCuisineFirst ==
    (/\ Done
     /\ PairDiffersInCuisineOnly
     /\ "cuisine" \in df.cols
     /\ CuisineMatches(df.rows[1]) # CuisineMatches(df.rows[2])
     /\ CuisineWeight > 0)
        => /\ result.status = "ok"
           /\ CuisineMatches(result.rows[1])

\* C22: with a cuisine weight of 0, two candidates that differ only in their
\* cuisine come out in the same relative order whatever the preference cuisine
\* is: whether it matches the first, the second, both or neither of them.
C22_ZeroCuisineWeight ==
    (Returned /\ PairDiffersInCuisineOnly /\ weights # None /\ CuisineWeight = 0) =>
        \A p \in PairPrefs :
            \A other \in {RankedWith(p)} :
                other.status = "ok" => NamesOf(other.rows) = NamesOf(result.rows)

\* Cuisine weight 0 and a preference that matches the second candidate only:
\* the first candidate stays first.
C22_Witness ==
    /\ Returned
    /\ PairDiffersInCuisineOnly
    /\ weights # None /\ CuisineWeight = 0
    /\ result.rows[1]["score_cuisine"] = Zero
    /\ result.rows[2]["score_cuisine"] = One
    /\ result.rows[1]["name"] = df.rows[1]["name"]
    /\ \E p \in PairPrefs : /\ RankedWith(p).status = "ok"
                            /\ RankedWith(p).rows[1]["score_cuisine"] = One
                            /\ RankedWith(p).rows[2]["score_cuisine"] = Zero

----------------------------------------------------------------------------
(* haversine_meters on pairs of valid coordinates *)

MaxGeoStep == 2       \* the second point lies up to this many steps from the first

\* One step, in millidegrees
GeoStep == 5 + 5

\* First points (lat, lon), in millidegrees: the equator, the seeker of the
\* tests, mid latitudes, and the neighbourhood of the poles and of the
\* antimeridian
GeoBases ==
    { <<0, 0>>, <<6210, -75570>>, <<45000, 90000>>, <<-33870, 151210>>,
      <<89980, -179970>>, <<-89980, 179970>> }

ValidCoordinates(pt) ==
    /\ -90000 <= pt[1] /\ pt[1] <= 90000
    /\ -180000 <= pt[2] /\ pt[2] <= 180000

InitGeo ==
    /\ \E p \in GeoBases, i \in -MaxGeoStep..MaxGeoStep, j \in -MaxGeoStep..MaxGeoStep :
          /\ ValidCoordinates(<<p[1] + i * GeoStep, p[2] + j * GeoStep>>)
          /\ geo = [at |-> "input", p |-> p,
                    q |-> <<p[1] + i * GeoStep, p[2] + j * GeoStep>>,
                    pq |-> None, qp |-> None, pp |-> None]
    /\ df = EmptyFrame /\ prefs = None /\ user_coords = None /\ weights = None
    /\ result = [status |-> "none"] /\ pc = "unused"
    /\ work = [t \in Threads |-> Idle] /\ log = {} /\ made = 0
    /\ expl = Unused /\ limiter = Unused /\ search = Unused
    /\ app = Unused /\ metro = Unused

\* What the call haversine_meters(a[1], a[2], b[1], b[2]) gives
HaversineCall(a, b) ==
    IF HaversineRaises(a[1], a[2], b[1], b[2]) THEN Error("ValueError")
    ELSE Num(haversine_meters(a[1], a[2], b[1], b[2]))

\* The distances from p to q, from q to p and from p to itself are computed.
GeoCalls ==
    /\ geo.at = "input"
    /\ geo' = [geo EXCEPT !.at = "done",
                          !.pq = HaversineCall(geo.p, geo.q),
                          !.qp = HaversineCall(geo.q, geo.p),
                          !.pp = HaversineCall(geo.p, geo.p)]
    /\ UNCHANGED <<rankVars, expl, limiter, search, app, metro>>

NextGeo == GeoCalls

SpecGeo == InitGeo /\ [][NextGeo]_vars

\* C23: for every valid point p, haversine_meters(p, p) does not raise and is
\* less than 1 metre.
C23_SamePointIsZero ==
    geo.at = "done" => (IsNum(geo.pp) /\ geo.pp.n < 1 /\ geo.pp.n > -1)

\* A point next to the pole and the antimeridian, at distance 0 from itself and
\* further from its neighbour
C23_Witness ==
    /\ geo.at = "done"
    /\ geo.p = <<89980, -179970>>
    /\ geo.pp = Num(0)
    /\ IsNum(geo.pq) /\ geo.pq.n > 1000

\* C24: haversine_meters is symmetric: the distance from p to q equals the
\* distance from q to p.
C24_Symmetric ==
    geo.at = "done" => geo.pq = geo.qp

\* Two points of different latitude and longitude, a positive distance apart
C24_Witness ==
    /\ geo.at = "done"
    /\ geo.p[1] # geo.q[1] /\ geo.p[2] # geo.q[2]
    /\ geo.p[1] = 45000
    /\ IsNum(geo.pq) /\ geo.pq.n > 1000 /\ geo.qp = geo.pq

----------------------------------------------------------------------------
(* llm_processing.py: ModelWrapper.generate, generate_explanations,        *)
(* _first_sentences, _fallback_explanation.  Texts are sequences of        *)
(* characters; a fixed phrase of a template is written as one element.     *)

MaxRestaurants == 2   \* restaurants handed to generate_explanations

\* What the text-generation pipeline does for one prompt: it is not available,
\* it raises, or it yields a generated_text value
PipelineOutcomes ==
    { [kind |-> "unavailable"], [kind |-> "raises"] } \cup
    { [kind |-> "text", v |-> v] :
        v \in { None, List, Str(<<>>), Str(<<" ">>), Str(<<"a",".">>),
                Str(<<"a","."," ","b","!">>),
                Str(<<" ","a","."," "," ","b","?"," ","c","."," ">>) } }

\* ModelWrapper.generate (lines 48-72): the generated text, or None
Generate(outcome) == IF outcome.kind = "text" THEN outcome.v ELSE None

\* re.split(r"(?<=[.!?])\s+", text): the sentences of a stripped text
RECURSIVE SplitSentences(_)
SplitSentences(text) ==
    LET ends == {i \in 1..(Len(text) - 1) : text[i] \in {".", "!", "?"} /\ text[i + 1] = " "}
    IN  IF ends = {} THEN <<text>>
        ELSE LET i == CHOOSE e \in ends : \A f \in ends : e <= f
                 rest == SubSeq(text, i + 1, Len(text))
                 next == CHOOSE k \in 1..(Len(rest) + 1) :
                            /\ \A j \in 1..(k - 1) : rest[j] = " "
                            /\ k = Len(rest) + 1 \/ rest[k] # " "
             IN  <<SubSeq(text, 1, i)>> \o SplitSentences(SubSeq(rest, next, Len(rest)))

\* " ".join(parts)
RECURSIVE JoinWithBlank(_)
JoinWithBlank(parts) ==
    IF parts = <<>> THEN <<>>
    ELSE IF Len(parts) = 1 THEN parts[1]
    ELSE parts[1] \o <<" ">> \o JoinWithBlank(Tail(parts))

\* The whole text kept, not its first sentences.
_first_sentences_KeepsAll(text, max_sentences) == Strip(text)

\* _first_sentences(text, max_sentences), lines 209-211
_first_sentences(text, max_sentences) ==
    LET parts == SplitSentences(Strip(text))
    IN  Strip(JoinWithBlank(SubSeq(parts, 1, IF Len(parts) < max_sentences
                                              THEN Len(parts) ELSE max_sentences)))

\* str(n) of a natural number
RECURSIVE NatText(_)
NatText(n) == IF n < 10 THEN <<Digits[n + 1]>> ELSE NatText(n \div 10) \o <<Digits[(n % 10) + 1]>>

\* The text an f-string puts for a value
Formatted(v) == IF IsNum(v) THEN NatText(v.n) ELSE v.s

barato == <<"b","a","r","a","t","o">>
econ == <<"e","c","o","n">>

\* s contains frag ("frag in s")
Contains(s, frag) ==
    \E k \in 0..(Len(s) - Len(frag)) : SubSeq(s, k + 1, k + Len(frag)) = frag

\* _fallback_explanation(user_query, r), lines 214-224
_fallback_explanation(user_query, r) ==
    LET name == Or(Get(r, "name", None), Str(<<"Este restaurante">>))
        cuisine == Or(Get(r, "cuisine", None), Str(<<"cocina variada">>))
        dist == Or(Or(Get(r, "distance_m", None), Get(r, "distance", None)), Str(<<"cerca">>))
        price_range == Or(Or(Get(r, "price_range", None), Get(r, "price", None)),
                          Str(<<"precio no disponible">>))
        price_text == IF IsNum(price_range)
                      THEN <<"precio aproximado", " ">> \o NatText(price_range.n)
                      ELSE Formatted(price_range)
        hint == IF Contains(Lower(user_query), barato) \/ Contains(Lower(user_query), econ)
                THEN <<"pensado en opciones económicas">> ELSE <<>>
    IN  Strip(Formatted(name) \o <<":", " ", "Cocina", " ">> \o Formatted(cuisine)
              \o <<".", " ", "A", " ">> \o Formatted(dist) \o <<" ", "metros", ".", " ">>
              \o price_text \o <<".", " ">> \o hint)

\* One pass of the loop of generate_explanations (lines 181-191): the
\* explanation appended for restaurant r when the pipeline does outcome.
ExplanationFor(user_query, r, outcome) ==
    LET txt == Generate(outcome)
    IN  IF Truthy(txt) /\ IsStr(txt) THEN _first_sentences(txt.s, 2)
        ELSE _fallback_explanation(user_query, r)

ExplainedRestaurants ==
    { [name |-> None, cuisine |-> None, distance_m |-> None],
      [name |-> Str(<<"A">>), cuisine |-> Str(thai), distance_m |-> Num(500),
       price_range |-> Str(low)],
      [name |-> Str(<<"B">>), cuisine |-> Str(sushi), distance_m |-> Num(0),
       price_range |-> Num(2)] }

InitExplain ==
    /\ expl \in { [at |-> "loop", user_query |-> q, restaurants |-> rs,
                   outcomes |-> <<>>, out |-> <<>>] :
                    q \in {barato, <<"S","u","s","h","i">>},
                    rs \in SeqsUpTo(ExplainedRestaurants, MaxRestaurants) }
    /\ df = EmptyFrame /\ prefs = None /\ user_coords = None /\ weights = None
    /\ result = [status |-> "none"] /\ pc = "unused"
    /\ work = [t \in Threads |-> Idle] /\ log = {} /\ made = 0
    /\ geo = Unused /\ limiter = Unused /\ search = Unused
    /\ app = Unused /\ metro = Unused

\* The loop body for the next restaurant, for whatever the pipeline does
Explain ==
    /\ expl.at = "loop"
    /\ Len(expl.out) < Len(expl.restaurants)
    /\ \E outcome \in PipelineOutcomes :
          expl' = [expl EXCEPT
                      !.outcomes = Append(@, outcome),
                      !.out = Append(@, ExplanationFor(expl.user_query,
                                            expl.restaurants[Len(expl.out) + 1], outcome))]
    /\ UNCHANGED <<rankVars, geo, limiter, search, app, metro>>

\* Line 192: return out
ReturnExplanations ==
    /\ expl.at = "loop"
    /\ Len(expl.out) = Len(expl.restaurants)
    /\ expl' = [expl EXCEPT !.at = "returned"]
    /\ UNCHANGED <<rankVars, geo, limiter, search, app, metro>>

NextExplain == Explain \/ ReturnExplanations

SpecExplain == InitExplain /\ [][NextExplain]_vars


\* A text without its blanks
NoBlanks(text) == SelectSeq(text, LAMBDA c : c # " ")

\* The places of a text where one sentence ends and a blank follows
SentenceBreaks(text) ==
    {i \in 1..(Len(text) - 1) : text[i] \in {".", "!", "?"} /\ text[i + 1] = " "}

\* The pipeline yielded a non-empty string
GaveText(outcome) ==
    outcome.kind = "text" /\ IsStr(outcome.v) /\ outcome.v.s # <<>>

\* The explanations made so far are one per restaurant handled, in input
\* order, and the call returns only with one for every restaurant
OnePerRestaurantInOrder ==
    /\ Len(expl.out) = Len(expl.outcomes)
    /\ Len(expl.out) <= Len(expl.restaurants)
    /\ expl.at = "returned" => Len(expl.out) = Len(expl.restaurants)

\* Without a text from the model the explanation is the template of that
\* restaurant, and it is not empty
FallbackOtherwise ==
    \A i \in 1..Len(expl.out) :
        ~GaveText(expl.outcomes[i]) =>
            /\ expl.out[i] = _fallback_explanation(expl.user_query, expl.restaurants[i])
            /\ expl.out[i] # <<>>

\* C25 as stated: generate_explanations returns one explanation per
\* restaurant in input order; each is the model's text (up to blanks) when the
\* model returned non-empty text and the non-empty template fallback otherwise.
C25_ModelTextOrFallback ==
    expl.at \in {"loop", "returned"} =>
        /\ OnePerRestaurantInOrder
        /\ FallbackOtherwise
        /\ \A i \in 1..Len(expl.out) :
              GaveText(expl.outcomes[i]) =>
                  NoBlanks(expl.out[i]) = NoBlanks(expl.outcomes[i].v.s)

\* C25 amended: generate_explanations returns one explanation per restaurant
\* in input order; when the model returned a non-empty string the explanation
\* is the beginning of that text cut after its second sentence (at most two
\* sentences, one blank between them, no blanks around), and otherwise it is
\* the non-empty template fallback of that restaurant; no outcome of the model
\* changes the number or the order of the explanations.
C25_FirstSentencesOrFallback ==
    expl.at \in {"loop", "returned"} =>
        /\ OnePerRestaurantInOrder
        /\ FallbackOtherwise
        /\ \A i \in 1..Len(expl.out) :
              GaveText(expl.outcomes[i]) =>
                  LET given == NoBlanks(expl.outcomes[i].v.s)
                      kept == NoBlanks(expl.out[i])
                  IN  /\ Len(kept) <= Len(given)
                      /\ kept = SubSeq(given, 1, Len(kept))
                      /\ Cardinality(SentenceBreaks(expl.out[i])) <= 1
                      /\ expl.out[i] = Strip(expl.out[i])
                      /\ Len(kept) < Len(given) =>
                            Cardinality(SentenceBreaks(expl.out[i])) = 1

\* A returned call for two restaurants: a text of three sentences for the
\* first, cut to two, and a raising pipeline for the second, whose name,
\* cuisine and distance are None
C25_Witness ==
    /\ expl.at = "returned"
    /\ Len(expl.out) = 2
    /\ GaveText(expl.outcomes[1])
    /\ Cardinality(SentenceBreaks(Strip(expl.outcomes[1].v.s))) = 2
    /\ expl.out[1] = <<"a", ".", " ", "b", "?">>
    /\ expl.outcomes[2].kind = "raises"
    /\ expl.restaurants[2] = [name |-> None, cuisine |-> None, distance_m |-> None]
    /\ expl.out[2] # <<>>


----------------------------------------------------------------------------
(* rate_limiter.py: RateLimiter.wait_if_needed called from several threads. *)
(* Times are in tenths of a second; time.time() is the variable            *)
(* limiter.clock, which other steps never move backwards.                  *)

MaxTicks == 11        \* tenths of a second the clock runs after the start
MaxWaits == 3         \* calls of wait_if_needed in one run
Epoch == 100          \* time.time() when the run starts, far from 0.0

\* RateLimiter.__init__, lines 26-31, with config.RATE_LIMITS (config.py 14-19)
_limits == [nominatim |-> 10, overpass |-> 5, default |-> 1]

\* The services asked for: the two named ones and one without a limit of its own
Services == {"nominatim", "overpass", "other"}

\* self._limits.get(service, self._limits["default"]), line 42
MinInterval(service) ==
    IF service \in DOMAIN _limits THEN _limits[service] ELSE _limits["default"]

\* The lock is taken whether or not another thread holds it.
LockFree_Always == TRUE

\* "with self._lock" (line 39) can be entered
LockFree == limiter.lock = 0

InitLimiter ==
    /\ limiter = [clock |-> Epoch, lock |-> 0, _last_call |-> << >>,
                  at |-> [t \in Threads |-> "idle"],
                  service |-> [t \in Threads |-> "default"],
                  until |-> [t \in Threads |-> 0],
                  calls |-> 0, recorded |-> <<>>]
    /\ df = EmptyFrame /\ prefs = None /\ user_coords = None /\ weights = None
    /\ result = [status |-> "none"] /\ pc = "unused"
    /\ work = [t \in Threads |-> Idle] /\ log = {} /\ made = 0
    /\ geo = Unused /\ expl = Unused /\ search = Unused
    /\ app = Unused /\ metro = Unused

\* Time passes while a call is under way or still to come
Tick ==
    /\ limiter.clock < Epoch + MaxTicks
    /\ limiter.calls < MaxWaits \/ \E t \in Threads : limiter.at[t] # "idle"
    /\ limiter' = [limiter EXCEPT !.clock = @ + 1]
    /\ UNCHANGED <<rankVars, geo, expl, search, app, metro>>

\* Thread t calls wait_if_needed(service) and arrives at the lock
Request(t) ==
    /\ limiter.at[t] = "idle"
    /\ limiter.calls < MaxWaits
    /\ \E s \in Services :
          limiter' = [limiter EXCEPT !.at[t] = "lock", !.service[t] = s,
                                     !.calls = @ + 1]
    /\ UNCHANGED <<rankVars, geo, expl, search, app, metro>>

\* Lines 39-48: t enters the lock, reads the clock and the last call of its
\* service and starts to sleep for what is missing of the interval
Acquire(t) ==
    /\ limiter.at[t] = "lock"
    /\ LockFree
    /\ LET now == limiter.clock
           last == Get(limiter._last_call, limiter.service[t], 0)
           min_interval == MinInterval(limiter.service[t])
           elapsed == now - last
           wait_time == IF elapsed < min_interval THEN min_interval - elapsed ELSE 0
       IN  limiter' = [limiter EXCEPT !.lock = t, !.at[t] = "sleep",
                                      !.until[t] = now + wait_time]
    /\ UNCHANGED <<rankVars, geo, expl, search, app, metro>>

\* Line 50 and the end of the with block: after the sleep t records
\* time.time() as the last call of its service and leaves the lock
Record(t) ==
    /\ limiter.at[t] = "sleep"
    /\ limiter.clock >= limiter.until[t]
    /\ LET s == limiter.service[t]
       IN  limiter' = [limiter EXCEPT
              !._last_call = [k \in DOMAIN @ \cup {s} |->
                                 IF k = s THEN limiter.clock ELSE @[k]],
              !.recorded = Append(@, [service |-> s, at |-> limiter.clock, by |-> t]),
              !.lock = 0, !.at[t] = "idle", !.service[t] = "default",
              !.until[t] = 0]
    /\ UNCHANGED <<rankVars, geo, expl, search, app, metro>>

NextLimiter == Tick \/ \E t \in Threads : Request(t) \/ Acquire(t) \/ Record(t)

SpecLimiter == InitLimiter /\ [][NextLimiter]_vars

\* Two records are successive calls for one service
Successive(i, j) ==
    /\ i < j
    /\ limiter.recorded[i].service = limiter.recorded[j].service
    /\ \A k \in (i + 1)..(j - 1) : limiter.recorded[k].service # limiter.recorded[i].service

\* C26: under every interleaving the times recorded in _last_call by two
\* successive calls for the same service are at least the service's minimum
\* interval apart (nominatim 1.0 s, overpass 0.5 s, any other 0.1 s).
C26_RateLimitRespected ==
    limiter.at \in [Threads -> {"idle", "lock", "sleep"}] =>
        /\ \A i, j \in 1..Len(limiter.recorded) :
              Successive(i, j) =>
                  limiter.recorded[j].at - limiter.recorded[i].at >=
                      (CASE limiter.recorded[i].service = "nominatim" -> 10
                         [] limiter.recorded[i].service = "overpass" -> 5
                         [] OTHER -> 1)
        /\ \A s \in DOMAIN limiter._last_call :
              \E i \in 1..Len(limiter.recorded) :
                  /\ limiter.recorded[i] .service = s
                  /\ limiter.recorded[i].at = limiter._last_call[s]

\* Two threads called for nominatim at once: the second was held at the lock
\* and its call is recorded exactly one second after the first; an overpass
\* call was recorded in between
C26_Witness ==
    /\ limiter.at \in [Threads -> {"idle"}]
    /\ Len(limiter.recorded) = 3
    /\ limiter.recorded[1].service = "nominatim"
    /\ limiter.recorded[2].service = "overpass"
    /\ limiter.recorded[3].service = "nominatim"
    /\ limiter.recorded[1].by # limiter.recorded[3].by
    /\ limiter.recorded[3].at = limiter.recorded[1].at + 10


----------------------------------------------------------------------------
(* geolocation.py: search_restaurants, the request loop of lines 176-188   *)
(* and what follows it.                                                     *)

MaxRetries == 2       \* largest value of the argument retries (its default)

\* What one requests.post / raise_for_status / resp.json() can do (lines
\* 179-181): a JSON object with elements, an empty one, or an exception
PostOutcomes == {"elements", "empty", "network error", "http error", "bad json"}

\* "while attempt <= retries", line 177
LoopContinues(attempt, retries) == attempt <= retries

\* The loop is left one failure early.
GivesUp_OneEarly(attempt, retries) == attempt >= retries

\* "if attempt > retries", line 185
GivesUp(attempt, retries) == attempt > retries

InitSearch ==
    /\ search \in { [at |-> "start", resolves |-> r, retries |-> n, attempt |-> 0,
                     data |-> "unbound", posts |-> <<>>, local |-> l,
                     overpass_rows |-> 0, local_rows |-> 0] :
                       r \in BOOLEAN, n \in 0..MaxRetries, l \in 0..1 }
    /\ df = EmptyFrame /\ prefs = None /\ user_coords = None /\ weights = None
    /\ result = [status |-> "none"] /\ pc = "unused"
    /\ work = [t \in Threads |-> Idle] /\ log = {} /\ made = 0
    /\ geo = Unused /\ expl = Unused /\ limiter = Unused
    /\ app = Unused /\ metro = Unused

\* Lines 153-176: an unresolved place returns an empty frame at once,
\* otherwise the query is built and attempt = 0
Resolve ==
    /\ search.at = "start"
    /\ search' = [search EXCEPT !.at = IF search.resolves THEN "while" ELSE "returned"]
    /\ UNCHANGED <<rankVars, geo, expl, limiter, app, metro>>

\* Lines 177-188: the loop test and, inside the loop, one request with
\* whatever comes of it
Post ==
    /\ search.at = "while"
    /\ IF ~LoopContinues(search.attempt, search.retries)
       THEN search' = [search EXCEPT !.at = "after"]
       ELSE \E o \in PostOutcomes :
              IF o \in {"elements", "empty"}
              THEN search' = [search EXCEPT !.posts = Append(@, o), !.data = o,
                                            !.at = "after"]
              ELSE LET attempt == search.attempt + 1
                   IN  IF GivesUp(attempt, search.retries)
                       THEN search' = [search EXCEPT !.posts = Append(@, o),
                                          !.attempt = attempt, !.data = "None",
                                          !.at = "after"]
                       ELSE search' = [search EXCEPT !.posts = Append(@, o),
                                          !.attempt = attempt, !.at = "sleep"]
    /\ UNCHANGED <<rankVars, geo, expl, limiter, app, metro>>

\* Line 188: time.sleep(1 + attempt * 1.5) ends
Sleep ==
    /\ search.at = "sleep"
    /\ search' = [search EXCEPT !.at = "while"]
    /\ UNCHANGED <<rankVars, geo, expl, limiter, app, metro>>

\* Lines 190-250: the rows of the answer, if there is one, joined with the
\* rows of the local dataset; reading data when no branch bound it raises
Combine ==
    /\ search.at = "after"
    /\ IF search.data = "unbound"
       THEN search' = [search EXCEPT !.at = "raised"]
       ELSE search' = [search EXCEPT
                          !.at = "returned",
                          !.overpass_rows = IF search.data = "elements" THEN 1 ELSE 0,
                          !.local_rows = search.local]
    /\ UNCHANGED <<rankVars, geo, expl, limiter, app, metro>>

NextSearch == Resolve \/ Post \/ Sleep \/ Combine

SpecSearch == InitSearch /\ [][NextSearch]_vars

\* Every request times out and every sleep ends, so a step that can be taken
\* is taken
SpecSearchLive == SpecSearch /\ WF_vars(NextSearch)

\* The requests of the call that failed
Failures == Cardinality({i \in 1..Len(search.posts) :
                            search.posts[i] \notin {"elements", "empty"}})

\* What holds of a call of search_restaurants at every moment
BoundedRetries ==
    search.at \in {"start", "while", "sleep", "after", "returned", "raised"} =>
        /\ Len(search.posts) <= search.retries + 1
        /\ search.at # "raised"
        \* a request follows failures only, and only up to retries of them
        /\ \A i \in 1..Len(search.posts) :
              /\ i - 1 <= search.retries
              /\ \A k \in 1..(i - 1) : search.posts[k] \notin {"elements", "empty"}
        \* before the next request the failures so far are at most retries
        /\ search.at \in {"while", "sleep"} => Failures <= search.retries
        /\ search.at \in {"after", "returned"} /\ search.resolves =>
              \/ /\ Len(search.posts) = Failures + 1
                 /\ search.posts[Len(search.posts)] \in {"elements", "empty"}
              \/ /\ Failures = search.retries + 1
                 /\ Len(search.posts) = Failures
                 /\ search.at = "returned" =>
                       search.overpass_rows = 0 /\ search.local_rows = search.local

\* C27: search_restaurants sends at most retries + 1 requests per call; it
\* stops at the first success, sends another request after a failure only
\* while the failures so far are at most retries, after retries + 1 failures
\* gives up without raising and goes on with the local dataset only; and the
\* call comes to its end.
C27_BoundedRetries == []BoundedRetries /\ <>(search.at = "returned")

\* A call with retries = 2 whose three requests all failed and that returned
\* with the rows of the local dataset only
C27_Witness ==
    /\ search.at = "returned"
    /\ search.retries = 2
    /\ Len(search.posts) = 3
    /\ Failures = 3
    /\ search.overpass_rows = 0
    /\ search.local_rows = 1


----------------------------------------------------------------------------
(* app.py: one run of the script after the form, lines 39-140.  app.said   *)
(* lists the st.error / st.warning / st.write messages of the run.         *)

MaxTopK == 2          \* largest "Máximo resultados" entered

\* What resolve_location(loc_text) does at line 69
GeocodeOutcomes == {"coords", "None", "raises"}

\* What cached_restaurant_search returns at line 84, when it does not raise
SearchOutcomes == ThreadFrames \cup {Frame(AllColumns, <<>>)}

\* The last k rows instead of the first.
HeadRows_Last(rows, k) ==
    SubSeq(rows, IF Len(rows) > k THEN Len(rows) - k + 1 ELSE 1, Len(rows))

\* df_ranked.head(int(top_k)), line 95
HeadRows(rows, k) == SubSeq(rows, 1, IF Len(rows) < k THEN Len(rows) ELSE k)

InitApp ==
    /\ app \in { [at |-> "form", top_k |-> k, prefs |-> p, coords |-> None,
                  found |-> None, ranked |-> None, rank_calls |-> <<>>,
                  why |-> "", said |-> <<>>, shown |-> <<>>] :
                    k \in 1..MaxTopK,
                    p \in {PrefsOf({"cuisine", "price_range"}, Str(thai), Str(low)),
                           PrefsOf({"price_range"}, None, Str(high))} }
    /\ df = EmptyFrame /\ prefs = None /\ user_coords = None /\ weights = None
    /\ result = [status |-> "none"] /\ pc = "unused"
    /\ work = [t \in Threads |-> Idle] /\ log = {} /\ made = 0
    /\ geo = Unused /\ expl = Unused /\ limiter = Unused
    /\ search = Unused /\ metro = Unused

\* Lines 39-58 and 142-143: nothing submitted, a query too short, or a failed
\* analysis end the run with a message; otherwise the preferences are known
Analyze ==
    /\ app.at = "form"
    /\ \E how \in {"not submitted", "too short", "analysis raises", "analysed"} :
          app' = IF how = "analysed"
                 THEN [app EXCEPT !.at = "locate"]
                 ELSE [app EXCEPT !.at = "done", !.why = how, !.said = Append(@, how)]
    /\ UNCHANGED <<rankVars, geo, expl, limiter, search, metro>>

\* Lines 60-78: the location text, if any, is geocoded
Locate ==
    /\ app.at = "locate"
    /\ \E has_text \in BOOLEAN, g \in GeocodeOutcomes :
          app' = IF ~has_text
                 THEN [app EXCEPT !.at = "search", !.why = "no location",
                                  !.said = Append(@, "warning: no location")]
                 ELSE IF g = "coords"
                 THEN [app EXCEPT !.at = "search", !.coords = Seeker,
                                  !.said = Append(@, "success: resolved")]
                 ELSE [app EXCEPT !.at = "search", !.why = "geocoding " \o g,
                                  !.said = Append(@, "error: location")]
    /\ UNCHANGED <<rankVars, geo, expl, limiter, search, metro>>

\* Lines 80-88 and 137-140: with coordinates the candidates are searched
Search ==
    /\ app.at = "search"
    /\ IF app.coords = None
       THEN app' = [app EXCEPT !.at = "done"]
       ELSE \E s \in SearchOutcomes, raises \in BOOLEAN :
              app' = IF raises
                     THEN [app EXCEPT !.at = "done", !.why = "search raises",
                                      !.said = Append(@, "error: search")]
                     ELSE IF s.rows = <<>>
                     THEN [app EXCEPT !.at = "done", !.found = s, !.why = "no candidates",
                                      !.said = Append(@, "warning: none found")]
                     ELSE [app EXCEPT !.at = "rank", !.found = s]
    /\ UNCHANGED <<rankVars, geo, expl, limiter, search, metro>>

\* Lines 92-100: rank_restaurants(df, prefs, user_coords=coords) and head
Rank ==
    /\ app.at = "rank"
    /\ \E apply_keeps_frame \in BOOLEAN :
          \E r \in {rank_restaurants(app.found, app.prefs, app.coords, None,
                                     apply_keeps_frame)} :
              app' = IF r.out.status = "ok"
                     THEN [app EXCEPT
                             !.at = "show", !.ranked = r.out,
                             !.rank_calls = Append(@, [df |-> app.found, coords |-> app.coords])]
                     ELSE [app EXCEPT
                             !.at = "done", !.why = "ranking raises",
                             !.rank_calls = Append(@, [df |-> app.found, coords |-> app.coords]),
                             !.said = Append(@, "error: ranking")]
    /\ UNCHANGED <<rankVars, geo, expl, limiter, search, metro>>

\* Lines 95 and 113-135: the rows of top are shown one after the other
Show ==
    /\ app.at = "show"
    /\ app' = [app EXCEPT !.at = "done",
                          !.shown = NamesOf(HeadRows(app.ranked.rows, app.top_k)),
                          !.said = Append(@, "success: showing")]
    /\ UNCHANGED <<rankVars, geo, expl, limiter, search, metro>>

NextApp == Analyze \/ Locate \/ Search \/ Rank \/ Show

SpecApp == InitApp /\ [][NextApp]_vars

\* C28: rank_restaurants is invoked only after the location was resolved to
\* coordinates and the search returned candidates; where the location is
\* missing, geocoding is unresolved or fails, or no candidate is found, no
\* ranking is attempted and a message is shown; the rows displayed are the
\* first top_k rows of the ranked result, in ranked order.
C28_RankOnlyWithCandidates ==
    app.at \in {"form", "locate", "search", "rank", "show", "done"} =>
        /\ Len(app.rank_calls) <= 1
        /\ \A i \in 1..Len(app.rank_calls) :
              /\ app.coords # None
              /\ app.rank_calls[i].coords = app.coords
              /\ app.found # None
              /\ app.found.rows # <<>>
              /\ app.rank_calls[i].df = app.found
        /\ app.why \in {"no location", "geocoding None", "geocoding raises",
                        "search raises", "no candidates"} =>
              /\ app.rank_calls = <<>>
              /\ app.said # <<>>
              /\ app.shown = <<>>
        /\ app.at = "done" /\ app.ranked # None =>
              /\ Len(app.shown) = (IF Len(app.ranked.rows) < app.top_k
                                   THEN Len(app.ranked.rows) ELSE app.top_k)
              /\ \A i \in 1..Len(app.shown) : app.shown[i] = app.ranked.rows[i]["name"]

\* Two candidates were found and ranked into another order than the search
\* gave them, and with top_k = 1 only the first ranked one is shown
C28_Witness ==
    /\ app.at = "done"
    /\ Len(app.rank_calls) = 1
    /\ app.top_k = 1
    /\ Len(app.ranked.rows) = 2
    /\ NamesOf(app.ranked.rows) # NamesOf(app.found.rows)
    /\ app.shown = <<app.ranked.rows[1]["name"]>>
    /\ app.ranked.rows[1]["name"] # app.ranked.rows[2]["name"]


----------------------------------------------------------------------------
(* Punto 3/metro_search.py: breadth_first_search and                       *)
(* iterative_deepening_search on the graph of MetroProblem.  A Node is     *)
(* written as its get_path(): the stations from the start to its state.    *)

MaxDepth == 12        \* depths tried by iterative deepening (range(100) in the code)

\* MetroProblem.__init__, lines 28-39
graph ==
    [A |-> <<"B", "C">>, B |-> <<"A", "D", "E">>, C |-> <<"A", "F">>,
     D |-> <<"B", "G">>, E |-> <<"B", "H", "I">>, F |-> <<"C", "J">>,
     G |-> <<"D">>, H |-> <<"E">>, I |-> <<"E", "J">>, J |-> <<"F", "I">>]

Stations == DOMAIN graph

\* MetroProblem.goal_test, lines 44-45
goal_test(state) == state = "J"

\* MetroProblem.actions, lines 47-48
actions(state) == IF state \in DOMAIN graph THEN graph[state] ELSE <<>>

\* MetroProblem.result, lines 50-53
result_of(state, action) ==
    IF \E i \in 1..Len(actions(state)) : actions(state)[i] = action THEN action ELSE state

\* Node.state of a node written as its path
StateOf(node) == node[Len(node)]

\* Lines 85-102: the for loop of breadth_first_search over the actions acts
\* of node; found is the goal node returned at line 95, or << >>
RECURSIVE BfsChildren(_, _, _, _)
BfsChildren(node, acts, frontier, explored) ==
    IF acts = <<>> THEN [found |-> <<>>, frontier |-> frontier]
    ELSE LET child_state == result_of(StateOf(node), Head(acts))
         IN  IF child_state \notin explored
                /\ ~\E i \in 1..Len(frontier) : StateOf(frontier[i]) = child_state
             THEN IF goal_test(child_state)
                  THEN [found |-> Append(node, child_state), frontier |-> frontier]
                  ELSE BfsChildren(node, Tail(acts),
                                   Append(frontier, Append(node, child_state)), explored)
             ELSE BfsChildren(node, Tail(acts), frontier, explored)

\* The search below a node is never cut off.
CutOff_Never(limit) == FALSE

\* "if limit == 0", line 122
CutOff(limit) == limit = 0

\* recursive_dls, lines 116-141; DlsChildren is its for loop (lines 128-139)
\* from the action acts on, cutoff_occurred being the cutoffs met so far
RECURSIVE recursive_dls(_, _, _), DlsChildren(_, _, _, _, _)
recursive_dls(node, limit, explored) ==
    IF goal_test(StateOf(node)) THEN [result |-> node, cutoff |-> FALSE]
    ELSE IF CutOff(limit) THEN [result |-> <<>>, cutoff |-> TRUE]
    ELSE DlsChildren(node, actions(StateOf(node)), limit,
                     explored \cup {StateOf(node)}, FALSE)

DlsChildren(node, acts, limit, explored, cutoff_occurred) ==
    IF acts = <<>> THEN [result |-> <<>>, cutoff |-> cutoff_occurred]
    ELSE CHOOSE out \in
           { IF child_node[Len(child_node)] \in explored
             THEN DlsChildren(node, Tail(acts), limit, explored, cutoff_occurred)
             ELSE CHOOSE found \in
                    { IF r.result # <<>> THEN [result |-> r.result, cutoff |-> FALSE]
                      ELSE DlsChildren(node, Tail(acts), limit, explored,
                                       cutoff_occurred \/ r.cutoff) :
                        r \in {recursive_dls(child_node, limit - 1, explored)} } : TRUE :
               child_node \in {Append(node, result_of(StateOf(node), Head(acts)))} } : TRUE

InitMetro ==
    /\ metro \in { [at |-> "called", start |-> s, goal |-> g, frontier |-> <<>>,
                    explored |-> {}, bfs |-> <<>>, depth |-> 0, ids |-> <<>>,
                    max_depth |-> -1] : s \in Stations, g \in Stations }
    /\ df = EmptyFrame /\ prefs = None /\ user_coords = None /\ weights = None
    /\ result = [status |-> "none"] /\ pc = "unused"
    /\ work = [t \in Threads |-> Idle] /\ log = {} /\ made = 0
    /\ geo = Unused /\ expl = Unused /\ limiter = Unused
    /\ search = Unused /\ app = Unused

\* Lines 63-78: breadth_first_search(problem, start, goal) up to its loop
BfsBegin ==
    /\ metro.at = "called"
    /\ metro' = IF goal_test(metro.start)
                THEN [metro EXCEPT !.at = "ids", !.bfs = <<metro.start>>]
                ELSE [metro EXCEPT !.at = "bfs", !.frontier = << <<metro.start>> >>]
    /\ UNCHANGED <<rankVars, geo, expl, limiter, search, app>>

\* Lines 80-112: one pass of the while loop, or the return of None
BfsExpand ==
    /\ metro.at = "bfs"
    /\ IF metro.frontier = <<>>
       THEN metro' = [metro EXCEPT !.at = "ids"]
       ELSE LET node == Head(metro.frontier)
                explored == metro.explored \cup {StateOf(node)}
            IN  \E r \in {BfsChildren(node, actions(StateOf(node)),
                                      Tail(metro.frontier), explored)} :
                    metro' = IF r.found # <<>>
                             THEN [metro EXCEPT !.at = "ids", !.bfs = r.found,
                                                !.explored = explored,
                                                !.frontier = r.frontier]
                             ELSE [metro EXCEPT !.explored = explored,
                                                !.frontier = r.frontier]
    /\ UNCHANGED <<rankVars, geo, expl, limiter, search, app>>

\* Lines 153-180: one pass of the loop of iterative_deepening_search
Deepen ==
    /\ metro.at = "ids"
    /\ IF metro.depth >= MaxDepth
       THEN metro' = [metro EXCEPT !.at = "done"]
       ELSE \E r \in {recursive_dls(<<metro.start>>, metro.depth, {})} :
               metro' = IF r.result # <<>>
                        THEN [metro EXCEPT !.at = "done", !.ids = r.result,
                                           !.max_depth = metro.depth]
                        ELSE IF ~r.cutoff
                        THEN [metro EXCEPT !.at = "done"]
                        ELSE [metro EXCEPT !.depth = @ + 1]
    /\ UNCHANGED <<rankVars, geo, expl, limiter, search, app>>

NextMetro == BfsBegin \/ BfsExpand \/ Deepen

SpecMetro == InitMetro /\ [][NextMetro]_vars

\* Both searches are sequential computations: a pass that can run does run
SpecMetroLive == SpecMetro /\ WF_vars(NextMetro)

\* b is next to a in the graph
Linked(a, b) == \E i \in 1..Len(graph[a]) : graph[a][i] = b

\* The stations within k edges of s
RECURSIVE Within(_, _)
Within(s, k) ==
    IF k = 0 THEN {s}
    ELSE UNION { near \cup {b \in Stations : \E a \in near : Linked(a, b)} :
                   near \in {Within(s, k - 1)} }

\* The least number of edges from s to t
Distance(s, t) == CHOOSE k \in 0..Cardinality(Stations) :
                     t \in Within(s, k) /\ \A j \in 0..(k - 1) : t \notin Within(s, j)

\* path leads from s to t along edges of the graph
LeadsFromTo(path, s, t) ==
    /\ path # <<>>
    /\ path[1] = s
    /\ path[Len(path)] = t
    /\ \A i \in 1..(Len(path) - 1) : Linked(path[i], path[i + 1])

\* What holds of the searches for J
ShortestToJ ==
    /\ metro.at \in {"ids", "done"} =>
          /\ LeadsFromTo(metro.bfs, metro.start, "J")
          /\ Len(metro.bfs) - 1 = Distance(metro.start, "J")
          /\ metro.start = "A" => Len(metro.bfs) - 1 = 3
    /\ metro.at = "done" =>
          /\ LeadsFromTo(metro.ids, metro.start, "J")
          /\ Len(metro.ids) - 1 = Distance(metro.start, "J")
          /\ Len(metro.ids) = Len(metro.bfs)
          /\ metro.max_depth = Len(metro.ids) - 1

\* C29: for every start station breadth_first_search and
\* iterative_deepening_search terminate and return a path from the start to J
\* along edges of the graph with the least possible number of edges (3 from
\* A); both paths have the same length and the max_depth reported by
\* iterative deepening is that length.
C29_ShortestPathToJ ==
    [](metro.at \in {"called", "bfs", "ids", "done"} => ShortestToJ)
        /\ <>(metro.at = "done")

\* From A both searches ended with a path of three edges to J
C29_Witness ==
    /\ metro.at = "done"
    /\ metro.start = "A"
    /\ metro.goal = "J"
    /\ metro.bfs = <<"A", "C", "F", "J">>
    /\ Len(metro.ids) = 4
    /\ metro.max_depth = 3

\* C30: breadth_first_search and iterative_deepening_search honour their goal
\* argument: for every start and goal the returned node's state is goal and
\* its path leads from start to goal; when start equals goal the path is the
\* single station.
C30_GoalArgumentHonoured ==
    /\ metro.at \in {"ids", "done"} /\ metro.bfs # <<>> =>
          /\ LeadsFromTo(metro.bfs, metro.start, metro.goal)
          /\ metro.start = metro.goal => metro.bfs = <<metro.start>>
    /\ metro.at = "done" /\ metro.ids # <<>> =>
          /\ LeadsFromTo(metro.ids, metro.start, metro.goal)
          /\ metro.start = metro.goal => metro.ids = <<metro.start>>
====
